---------------------------- MODULE Spec2Model ----------------------------
(***************************************************************************)
(* A model of the ATS analysis engine of jrn_resume: the scoring service   *)
(* (app/services/ats_analysis_service.py), the keyword matcher             *)
(* (app/utils/ats_keywords.py) and the score-history repository            *)
(* (app/repositories/ats_repository.py).                                   *)
(*                                                                         *)
(* Python floats are IEEE-754 binary64 numbers.  The code compares and     *)
(* truncates floats, so the model computes them bit for bit: a float is a  *)
(* sign, a 53-bit mantissa (a multi-limb natural, TLC integers having 32   *)
(* bits) and an exponent, and every operation rounds to nearest, ties to   *)
(* even.                                                                   *)
(***************************************************************************)
EXTENDS Integers, Sequences, FiniteSets, TLC

VARIABLES
    store,      \* ats_score_history table: resume_id -> row, or NoRow
    now,        \* the clock read by datetime.utcnow()
    last,       \* the last repository call: its arguments and what it returned
    appended,   \* history variable: every entry appended per resume_id, in order
    request,    \* the arguments of analyze_resume
    result,     \* what analyze_resume returned, or NoResult
    analyses,   \* ats_analyses table: the rows save_analysis_result created, in order
    calls,      \* the call of each caller of the endpoint: its position and locals
    orders,     \* per worker process, the set orders its hash seed gave so far
    rate_limit_storage, \* _rate_limit_storage: client_ip -> timestamps of admitted calls
    admitted    \* history variable: per client_ip, the time of every admitted call

vars == <<store, now, last, appended, request, result, analyses, calls, orders,
          rate_limit_storage, admitted>>

(***************************************************************************)
(* Multi-limb naturals: little-endian sequences of limbs below Base, the   *)
(* most significant limb non-zero; <<>> is zero.                           *)
(***************************************************************************)
LimbBits == 15
Base == 2^LimbBits

Max(a, b) == IF a >= b THEN a ELSE b
Min(a, b) == IF a <= b THEN a ELSE b
Abs(n) == IF n < 0 THEN -n ELSE n

RECURSIVE BTrim(_)
BTrim(a) ==
    IF a = <<>> THEN a
    ELSE IF a[Len(a)] = 0 THEN BTrim(SubSeq(a, 1, Len(a) - 1)) ELSE a

RECURSIVE BFromInt(_)
BFromInt(n) == IF n = 0 THEN <<>> ELSE <<n % Base>> \o BFromInt(n \div Base)

RECURSIVE BToInt(_)
BToInt(a) == IF a = <<>> THEN 0 ELSE Head(a) + Base * BToInt(Tail(a))

BHead(a) == IF a = <<>> THEN 0 ELSE Head(a)
BTail(a) == IF a = <<>> THEN <<>> ELSE Tail(a)

RECURSIVE BAddC(_, _, _)
BAddC(a, b, c) ==
    IF a = <<>> /\ b = <<>> THEN (IF c = 0 THEN <<>> ELSE <<c>>)
    ELSE LET x == BHead(a) + BHead(b) + c
         IN  <<x % Base>> \o BAddC(BTail(a), BTail(b), x \div Base)

BAdd(a, b) == BAddC(a, b, 0)

\* a - b for a >= b
RECURSIVE BSubC(_, _, _)
BSubC(a, b, c) ==
    IF a = <<>> THEN <<>>
    ELSE LET x == Head(a) - BHead(b) - c
         IN  <<x % Base>> \o BSubC(Tail(a), BTail(b), IF x < 0 THEN 1 ELSE 0)

BSub(a, b) == BTrim(BSubC(a, b, 0))

\* -1, 0, 1 as a < b, a = b, a > b
RECURSIVE BCmpAt(_, _, _)
BCmpAt(a, b, i) ==
    IF i = 0 THEN 0
    ELSE IF a[i] < b[i] THEN -1
    ELSE IF a[i] > b[i] THEN 1
    ELSE BCmpAt(a, b, i - 1)

BCmp(a, b) ==
    IF Len(a) < Len(b) THEN -1
    ELSE IF Len(a) > Len(b) THEN 1
    ELSE BCmpAt(a, b, Len(a))

\* a * k + c for k < Base
RECURSIVE BMulSmallC(_, _, _)
BMulSmallC(a, k, c) ==
    IF a = <<>> THEN (IF c = 0 THEN <<>> ELSE <<c>>)
    ELSE LET x == Head(a) * k + c
         IN  <<x % Base>> \o BMulSmallC(Tail(a), k, x \div Base)

BMulSmall(a, k) == IF k = 0 THEN <<>> ELSE BMulSmallC(a, k, 0)

RECURSIVE BMul(_, _)
BMul(a, b) ==
    IF a = <<>> \/ b = <<>> THEN <<>>
    ELSE BAdd(BMulSmall(a, Head(b)),
              LET hi == BMul(a, Tail(b)) IN IF hi = <<>> THEN <<>> ELSE <<0>> \o hi)

\* quotient and remainder of a by k, 0 < k <= Base
RECURSIVE BDivSmallR(_, _)
BDivSmallR(a, k) ==
    IF a = <<>> THEN [q |-> <<>>, r |-> 0]
    ELSE LET hi  == BDivSmallR(Tail(a), k)
             cur == hi.r * Base + Head(a)
         IN  [q |-> <<cur \div k>> \o hi.q, r |-> cur % k]

BDivSmall(a, k) == LET d == BDivSmallR(a, k) IN [q |-> BTrim(d.q), r |-> d.r]

RECURSIVE SmallBitLen(_)
SmallBitLen(n) == IF n = 0 THEN 0 ELSE 1 + SmallBitLen(n \div 2)

BitLen(a) == IF a = <<>> THEN 0 ELSE LimbBits * (Len(a) - 1) + SmallBitLen(a[Len(a)])

Zeros(k) == [i \in 1..k |-> 0]

\* a * 2^k
BShl(a, k) ==
    IF a = <<>> THEN <<>>
    ELSE Zeros(k \div LimbBits) \o BMulSmall(a, 2^(k % LimbBits))

\* floor(a / 2^k), and whether a non-zero bit was shifted out
BShr(a, k) ==
    LET limbs == Min(k \div LimbBits, Len(a))
        rest  == SubSeq(a, limbs + 1, Len(a))
        d     == BDivSmall(rest, 2^(k % LimbBits))
    IN  [q |-> d.q,
         lost |-> d.r # 0 \/ \E i \in 1..limbs : a[i] # 0]

BOdd(a) == a # <<>> /\ a[1] % 2 = 1

\* a = d * 2^t with d odd (a # 0)
RECURSIVE SmallTrailingZeros(_)
SmallTrailingZeros(n) == IF n % 2 = 1 THEN 0 ELSE 1 + SmallTrailingZeros(n \div 2)

RECURSIVE BTrailingZeros(_)
BTrailingZeros(a) ==
    IF Head(a) = 0 THEN LimbBits + BTrailingZeros(Tail(a))
    ELSE SmallTrailingZeros(Head(a))

(***************************************************************************)
(* binary64.  A float is [neg, m, e] with value (-1)^neg * m * 2^e, m = 0  *)
(* or 2^52 <= m < 2^53.  Infinities, NaNs and subnormals do not arise from *)
(* the program's values (counts and scores of moderate size).              *)
(***************************************************************************)
MantBits == 53

\* The one element of a singleton set: Value({e : x \in {a}}) is e with a
\* for x, a computed once
Value(S) == CHOOSE r \in S : TRUE

FZero == [neg |-> FALSE, m |-> <<>>, e |-> 0]

\* FRound for a mantissa of more than MantBits bits: t is m without its
\* k - 1 lowest bits, so the lowest bit of t.q is the rounding bit
FRoundDown(neg, t, e, k, sticky) ==
    Value({ LET up == BOdd(t.q) /\ (t.lost \/ sticky \/ BOdd(q))
            IN  IF ~up THEN [neg |-> neg, m |-> q, e |-> e + k]
                ELSE Value({ IF BitLen(q1) > MantBits
                             THEN [neg |-> neg, m |-> BShr(q1, 1).q, e |-> e + k + 1]
                             ELSE [neg |-> neg, m |-> q1, e |-> e + k]
                             : q1 \in {BAdd(q, <<1>>)} })
            : q \in {BShr(t.q, 1).q} })

\* The float nearest to (-1)^neg * (m + f) * 2^e, where 0 <= f < 1 and
\* sticky says f > 0: round to nearest, ties to even.
FRound(neg, m0, e, sticky) ==
    Value({ Value({ IF len = 0 THEN FZero
                    ELSE IF len <= MantBits
                    THEN [neg |-> neg, m |-> BShl(m, MantBits - len),
                          e |-> e - (MantBits - len)]
                    ELSE Value({ FRoundDown(neg, t, e, len - MantBits, sticky)
                                 : t \in {BShr(m, len - MantBits - 1)} })
                    : len \in {BitLen(m)} })
            : m \in {m0} })

FFromInt(n) == FRound(n < 0, BFromInt(Abs(n)), 0, FALSE)

FNeg(a) == Value({ IF x.m = <<>> THEN x ELSE [x EXCEPT !.neg = ~x.neg] : x \in {a} })

FAddAligned(xneg, mx, yneg, my, e) ==
    IF xneg = yneg THEN FRound(xneg, BAdd(mx, my), e, FALSE)
    ELSE IF BCmp(mx, my) >= 0 THEN FRound(xneg, BSub(mx, my), e, FALSE)
    ELSE FRound(yneg, BSub(my, mx), e, FALSE)

FAdd(a, b) ==
    Value({ IF x.m = <<>> THEN y
            ELSE IF y.m = <<>> THEN x
            ELSE Value({ FAddAligned(x.neg, mx, y.neg, my, Min(x.e, y.e))
                         : mx \in {BShl(x.m, x.e - Min(x.e, y.e))},
                           my \in {BShl(y.m, y.e - Min(x.e, y.e))} })
            : x \in {a}, y \in {b} })

FSub(a, b) == FAdd(a, FNeg(b))

FMul(a, b) ==
    Value({ FRound(x.neg # y.neg, BMul(x.m, y.m), x.e + y.e, FALSE)
            : x \in {a}, y \in {b} })

\* x / y for y = d * 2^t with d an odd integer below Base: every divisor of
\* the program is a count or a length.
DivGuard == 60
FDivOdd(x, y, t, d) ==
    CASE Len(d) = 1 ->
        Value({ FRound(x.neg # y.neg, qr.q, x.e - y.e - t - DivGuard, qr.r # 0)
                : qr \in {BDivSmall(BShl(x.m, DivGuard), d[1])} })

FDiv(a, b) ==
    Value({ IF x.m = <<>> THEN FZero
            ELSE Value({ Value({ FDivOdd(x, y, t, d) : d \in {BShr(y.m, t).q} })
                         : t \in {BTrailingZeros(y.m)} })
            : x \in {a}, y \in {b} })

\* -1, 0, 1 as x < y, x = y, x > y
FCmp(a, b) ==
    Value({ IF d.m = <<>> THEN 0 ELSE IF d.neg THEN -1 ELSE 1 : d \in {FSub(a, b)} })

FLt(x, y) == FCmp(x, y) < 0
FGt(x, y) == FCmp(x, y) > 0
FLe(x, y) == FCmp(x, y) <= 0
FGe(x, y) == FCmp(x, y) >= 0

FAbs(a) == Value({ [x EXCEPT !.neg = FALSE] : x \in {a} })

\* int(x): truncation toward zero, |x| < 2^31
FTrunc(a) ==
    Value({ IF x.m = <<>> THEN 0
            ELSE IF x.e >= 0
            THEN (IF x.neg THEN -1 ELSE 1) * BToInt(BShl(x.m, x.e))
            ELSE (IF x.neg THEN -1 ELSE 1) * BToInt(BShr(x.m, -x.e).q)
            : x \in {a} })

\* sum(xs) of a list of ints is an int; sum of floats starts from int 0
RECURSIVE SumInt(_)
SumInt(xs) == IF xs = <<>> THEN 0 ELSE Head(xs) + SumInt(Tail(xs))

\* sum() of the floats xs[1], ..., xs[n], left to right
RECURSIVE FSumTo(_, _)
FSumTo(xs, n) ==
    IF n = 0 THEN FZero
    ELSE Value({ FAdd(s, xs[n]) : s \in {FSumTo(xs, n - 1)} })

FSum(xs) == Value({ FSumTo(ys, Len(ys)) : ys \in {xs} })

(***************************************************************************)
(* The score history of ats_repository.py.                                 *)
(***************************************************************************)
Docs == {"r1", "r2"}

\* query(ATSScoreHistory).filter(resume_id == ...).first() found no row
NoRow == [absent |-> TRUE]

MaxHistory == 50
TrendWindow == 5

\* strftime("%Y-%m-%d") of a clock reading
TicksPerDay == 4
Date(t) == t \div TicksPerDay

Range(f) == {f[i] : i \in DOMAIN f}

\* xs[-k:] for k > 0
LastN(xs, k) == SubSeq(xs, Max(1, Len(xs) - k + 1), Len(xs))

\* json.dumps of a list of dicts: each dict is written as its key/value
\* pairs in insertion order; ints and strings are written as themselves.
JsonDumps(entries) ==
    [i \in 1..Len(entries) |->
        <<<<"score", entries[i].score>>,
          <<"timestamp", entries[i].timestamp>>,
          <<"date", entries[i].date>>>>]

\* json.loads: each object becomes a dict of its pairs
JsonLoads(text) ==
    [i \in 1..Len(text) |->
        [k \in {p[1] : p \in Range(text[i])} |->
            (CHOOSE p \in Range(text[i]) : p[1] = k)[2]]]

ScoresOf(entries) == [i \in 1..Len(entries) |-> entries[i].score]

RECURSIVE MaxOf(_)
MaxOf(xs) == IF Len(xs) = 1 THEN xs[1] ELSE Max(Head(xs), MaxOf(Tail(xs)))

RECURSIVE MinOf(_)
MinOf(xs) == IF Len(xs) = 1 THEN xs[1] ELSE Min(Head(xs), MinOf(Tail(xs)))

\* slope > 2, slope < -2, else
ClassifySlope(slope0) ==
    Value({ IF FGt(slope, FFromInt(2)) THEN "improving"
            ELSE IF FLt(slope, FFromInt(-2)) THEN "declining"
            ELSE "stable"
            : slope \in {slope0} })

\* (x_values[i] - x_mean) * (score_values[i] - y_mean), and the square of
\* the first factor
Product(x, x_mean, y, y_mean) == FMul(FSub(FFromInt(x), x_mean), FSub(FFromInt(y), y_mean))
Square(x, x_mean) == Value({ FMul(dx, dx) : dx \in {FSub(FFromInt(x), x_mean)} })

\* _calculate_improvement_trend from "n = len(score_values)" on
TrendOfValues(score_values) ==
    LET n        == Len(score_values)
        x_values == [i \in 1..n |-> i - 1]
    IN  Value({ Value({ IF denominator = FZero THEN "stable"
                        ELSE ClassifySlope(FDiv(numerator, denominator))
                        : numerator \in
                            {FSum([i \in 1..n |-> Product(x_values[i], x_mean,
                                                          score_values[i], y_mean)])},
                          denominator \in
                            {FSum([i \in 1..n |-> Square(x_values[i], x_mean)])} })
                : x_mean \in {FDiv(FFromInt(SumInt(x_values)), FFromInt(n))},
                  y_mean \in {FDiv(FFromInt(SumInt(score_values)), FFromInt(n))} })

\* _calculate_improvement_trend
CalculateImprovementTrend(scores) ==
    IF Len(scores) < 2 THEN "neutral"
    ELSE
      LET recent_scores == LastN(scores, TrendWindow)
          score_values  == ScoresOf(SelectSeq(recent_scores,
                                LAMBDA entry : "score" \in DOMAIN entry))
      IN  IF Len(score_values) < 2 THEN "neutral"
          ELSE Value({ TrendOfValues(values) : values \in {score_values} })

\* Mutants of KeepLast: no truncation; existing_scores[:50]
KeepAll(existing_scores) == existing_scores
KeepFirst(existing_scores) ==
    IF Len(existing_scores) > MaxHistory
    THEN SubSeq(existing_scores, 1, MaxHistory)
    ELSE existing_scores

\* existing_scores[-50:] when there are more than 50
KeepLast(existing_scores) ==
    IF Len(existing_scores) > MaxHistory
    THEN LastN(existing_scores, MaxHistory)
    ELSE existing_scores

\* Faulty variant of UpdatedRow: the best and the worst score are kept
\* running, over the entries that were dropped too
UpdatedRowRunning(row, new_score_entry) ==
    LET existing_scores == KeepLast(Append(JsonLoads(row.scores_json), new_score_entry))
        scores_only     == ScoresOf(existing_scores)
    IN  [scores_json        |-> JsonDumps(existing_scores),
         last_analysis_date |-> new_score_entry.timestamp,
         total_analyses     |-> row.total_analyses + 1,
         best_score         |-> Max(row.best_score, new_score_entry.score),
         worst_score        |-> Min(row.worst_score, new_score_entry.score),
         average_score      |-> FDiv(FFromInt(SumInt(scores_only)), FFromInt(Len(scores_only))),
         improvement_trend  |-> CalculateImprovementTrend(existing_scores)]

\* The row _update_score_history writes when a row exists.
UpdatedRow(row, new_score_entry) ==
    LET existing_scores == KeepLast(Append(JsonLoads(row.scores_json), new_score_entry))
        scores_only     == ScoresOf(existing_scores)
    IN  [scores_json        |-> JsonDumps(existing_scores),
         last_analysis_date |-> new_score_entry.timestamp,
         total_analyses     |-> row.total_analyses + 1,
         best_score         |-> MaxOf(scores_only),
         worst_score        |-> MinOf(scores_only),
         average_score      |-> FDiv(FFromInt(SumInt(scores_only)), FFromInt(Len(scores_only))),
         improvement_trend  |-> CalculateImprovementTrend(existing_scores)]

\* Faulty variant of NewRow: a first row created with trend "stable"
NewRowStable(new_score_entry) ==
    [scores_json        |-> JsonDumps(<<new_score_entry>>),
     last_analysis_date |-> new_score_entry.timestamp,
     total_analyses     |-> 1,
     best_score         |-> new_score_entry.score,
     worst_score        |-> new_score_entry.score,
     average_score      |-> FFromInt(new_score_entry.score),
     improvement_trend  |-> "stable"]

\* The row it adds when there is none.
NewRow(new_score_entry) ==
    [scores_json        |-> JsonDumps(<<new_score_entry>>),
     last_analysis_date |-> new_score_entry.timestamp,
     total_analyses     |-> 1,
     best_score         |-> new_score_entry.score,
     worst_score        |-> new_score_entry.score,
     average_score      |-> FFromInt(new_score_entry.score),
     improvement_trend  |-> "neutral"]

\* max() of an empty list raises ValueError: the handler rolls back and re-raises
UpdateRaises(row, new_score_entry) ==
    row # NoRow /\ KeepLast(Append(JsonLoads(row.scores_json), new_score_entry)) = <<>>

\* The table after _update_score_history added new_score_entry: unchanged
\* when it raised and rolled back
ScoreHistoryWith(resume_id, new_score_entry) ==
    IF UpdateRaises(store[resume_id], new_score_entry) THEN store
    ELSE [store EXCEPT ![resume_id] =
            IF store[resume_id] # NoRow
            THEN UpdatedRow(store[resume_id], new_score_entry)
            ELSE NewRow(new_score_entry)]

\* The entries appended so far, after the same call
AppendedWith(resume_id, new_score_entry) ==
    IF UpdateRaises(store[resume_id], new_score_entry) THEN appended
    ELSE [appended EXCEPT ![resume_id] = Append(@, new_score_entry)]

\* _update_score_history(resume_id, new_score)
UpdateScoreHistory(resume_id, new_score) ==
    LET score_history   == store[resume_id]
        new_score_entry == [score |-> new_score, timestamp |-> now, date |-> Date(now)]
        raises          == UpdateRaises(score_history, new_score_entry)
    IN  /\ store' = ScoreHistoryWith(resume_id, new_score_entry)
        /\ now' = now + 1
        /\ last' = [op |-> "update_score_history", resume_id |-> resume_id,
                    new_score |-> new_score, raised |-> raises]
        /\ appended' = AppendedWith(resume_id, new_score_entry)
        /\ UNCHANGED <<request, result, analyses, calls, orders, rate_limit_storage, admitted>>

\* get_score_history(resume_id, limit)
GetScoreHistory(resume_id, limit) ==
    LET score_history == store[resume_id]
        scores         == JsonLoads(score_history.scores_json)
        limited_scores == IF limit # 0 THEN LastN(scores, limit) ELSE scores
    IN  /\ last' = IF score_history = NoRow
                   THEN [op |-> "get_score_history", resume_id |-> resume_id, limit |-> limit,
                         scores |-> <<>>, improvement_trend |-> "neutral",
                         last_analysis_date |-> now, raised |-> FALSE]
                   ELSE [op |-> "get_score_history", resume_id |-> resume_id, limit |-> limit,
                         scores |-> limited_scores,
                         improvement_trend |-> CalculateImprovementTrend(limited_scores),
                         last_analysis_date |-> score_history.last_analysis_date,
                         raised |-> FALSE]
        /\ UNCHANGED <<store, now, appended, request, result, analyses, calls, orders, rate_limit_storage, admitted>>

NoCall == [op |-> "none"]
NoRequest == [none |-> TRUE]
NoResult == [none |-> TRUE]

\* The callers of the endpoint and the worker processes that serve them
Callers == {"a", "b"}
\* The keys of _rate_limit_storage: the client hosts, and "unknown" for a
\* request without a client
ClientIps == {"10.0.0.1", "10.0.0.2", "unknown"}
Workers == {"w1", "w2"}
Idle == [pc |-> "idle"]

Entries(d) == IF store[d] = NoRow THEN <<>> ELSE JsonLoads(store[d].scores_json)
Total(d) == IF store[d] = NoRow THEN 0 ELSE store[d].total_analyses

InitHistory ==
    /\ store = [d \in Docs |-> NoRow]
    /\ now = 0
    /\ last = NoCall
    /\ appended = [d \in Docs |-> <<>>]
    /\ request = NoRequest
    /\ result = NoResult
    /\ analyses = <<>>
    /\ calls = [c \in Callers |-> Idle]
    /\ orders = [w \in Workers |-> {}]
    /\ rate_limit_storage = [client_ip \in ClientIps |-> <<>>]
    /\ admitted = [client_ip \in ClientIps |-> <<>>]

\* Capacity: one document filled past the cap.  The first MaxVaryLen
\* appends choose among CapScores, the later ones repeat BaseScore.
CapDocs == {"r1"}
BaseScore == 50
CapScores == {BaseScore, 70}
MaxVaryLen == 2
MaxOverflow == 2

NextHistory ==
    \E d \in CapDocs, s \in CapScores :
        /\ Total(d) < MaxHistory + MaxOverflow
        /\ (s # BaseScore => Total(d) < MaxVaryLen)
        /\ UpdateScoreHistory(d, s)

SpecHistory == InitHistory /\ [][NextHistory]_vars

\* Trend classification: every history over TrendScores of bounded length.
TrendScores == {17, 40, 45, 50, 55, 60}
MaxTrendAppends == 5

NextTrend ==
    \E s \in TrendScores :
        /\ Total("r1") < MaxTrendAppends
        /\ UpdateScoreHistory("r1", s)

SpecTrend == InitHistory /\ [][NextTrend]_vars

\* Reads: appends to both documents interleaved with get_score_history.
ReadScores == {40, 60}
Limits == {1, 2, 10}
MaxReadAppends == 3

NextRead ==
    \/ \E d \in Docs, s \in ReadScores :
        /\ Total("r1") + Total("r2") < MaxReadAppends
        /\ UpdateScoreHistory(d, s)
    \/ \E d \in Docs, limit \in Limits : GetScoreHistory(d, limit)

SpecRead == InitHistory /\ [][NextRead]_vars


(***************************************************************************)
(* Text.  A str is a TLA+ string; the operators below are the str and re   *)
(* operations the analysis uses, computed character by character.          *)
(***************************************************************************)
Char(s, i) == SubSeq(s, i, i)

Lowercase == "abcdefghijklmnopqrstuvwxyz"
Uppercase == "ABCDEFGHIJKLMNOPQRSTUVWXYZ"
Digits == "0123456789"
CharsOf(s) == {Char(s, i) : i \in 1..Len(s)}

\* \s, \d, [a-zA-Z], \w
IsSpace(c) == c \in {" ", "\t", "\n"}
IsDigit(c) == c \in CharsOf(Digits)
IsAlpha(c) == c \in CharsOf(Lowercase) \cup CharsOf(Uppercase)
IsWord(c) == IsAlpha(c) \/ IsDigit(c) \/ c = "_"

LowerChar(c) ==
    IF c \in CharsOf(Uppercase)
    THEN Char(Lowercase, CHOOSE i \in 1..Len(Uppercase) : Char(Uppercase, i) = c)
    ELSE c

\* str.lower()
RECURSIVE Lower(_)
Lower(s) ==
    IF Len(s) = 0 THEN ""
    ELSE IF Len(s) = 1 THEN LowerChar(s)
    ELSE Lower(SubSeq(s, 1, Len(s) \div 2)) \o Lower(SubSeq(s, Len(s) \div 2 + 1, Len(s)))

\* str.strip()
Strip(s) ==
    LET inside == {i \in 1..Len(s) : ~IsSpace(Char(s, i))}
    IN  IF inside = {} THEN ""
        ELSE SubSeq(s, CHOOSE i \in inside : \A j \in 1..(i - 1) : j \notin inside,
                       CHOOSE i \in inside : \A j \in (i + 1)..Len(s) : j \notin inside)

\* str.rstrip('.,!?:;')
RStripPunctuation(s) ==
    LET inside == {i \in 1..Len(s) : Char(s, i) \notin {".", ",", "!", "?", ":", ";"}}
    IN  IF inside = {} THEN ""
        ELSE SubSeq(s, 1, CHOOSE i \in inside : \A j \in inside : i >= j)

\* The elements of a set of positions within lo..hi in increasing order
RECURSIVE Sorted(_, _, _)
Sorted(S, lo, hi) ==
    IF lo > hi THEN <<>>
    ELSE IF lo = hi THEN (IF lo \in S THEN <<lo>> ELSE <<>>)
    ELSE Sorted(S, lo, (lo + hi) \div 2) \o Sorted(S, (lo + hi) \div 2 + 1, hi)

\* The maximal runs of the positions of s that are in keep, in order
Runs(s, keep) ==
    Value({ Value({ [k \in 1..Len(starts) |-> SubSeq(s, starts[k], ends[k])] :
                    starts \in {Sorted({i \in kept : i - 1 \notin kept}, 1, Len(s))},
                    ends \in {Sorted({i \in kept : i + 1 \notin kept}, 1, Len(s))} }) :
            kept \in {{i : i \in keep}} })

\* str.split()
Split(s) == Runs(s, {i \in 1..Len(s) : ~IsSpace(Char(s, i))})

\* sep.join(parts)
RECURSIVE Join(_, _)
Join(parts, sep) ==
    IF Len(parts) = 0 THEN ""
    ELSE IF Len(parts) = 1 THEN parts[1]
    ELSE Join(SubSeq(parts, 1, Len(parts) \div 2), sep) \o sep
            \o Join(SubSeq(parts, Len(parts) \div 2 + 1, Len(parts)), sep)

\* term in text
Contains(text, term) ==
    \E i \in 1..(Len(text) - Len(term) + 1) : SubSeq(text, i, i + Len(term) - 1) = term

\* text[i:].startswith(term)
StartsAt(text, term, i) ==
    i + Len(term) - 1 <= Len(text) /\ SubSeq(text, i, i + Len(term) - 1) = term

\* re.sub(r'[^\w\s-]', ' ', s)
RECURSIVE BlankPunctuation(_)
BlankPunctuation(s) ==
    IF Len(s) = 0 THEN ""
    ELSE IF Len(s) = 1 THEN (IF IsWord(s) \/ IsSpace(s) \/ s = "-" THEN s ELSE " ")
    ELSE BlankPunctuation(SubSeq(s, 1, Len(s) \div 2))
            \o BlankPunctuation(SubSeq(s, Len(s) \div 2 + 1, Len(s)))

\* re.sub(r'\s+', ' ', s.strip()): every run of whitespace inside becomes
\* one space
CollapseSpaces(s) == Join(Split(s), " ")

\* \b at the gap before position i of s (1 <= i <= Len(s) + 1)
WordBoundary(s, i) ==
    (i > 1 /\ IsWord(Char(s, i - 1))) # (i <= Len(s) /\ IsWord(Char(s, i)))

\* str.isdigit()
IsDigitString(s) == Len(s) > 0 /\ \A i \in 1..Len(s) : IsDigit(Char(s, i))

(***************************************************************************)
(* The dictionaries of ATSKeywordMatcher (ats_keywords.py).  The lists of  *)
(* the source are written as sets: the code only tests membership in them *)
(* or turns them into sets.                                                *)
(***************************************************************************)
stop_words ==
    {"a", "about", "above", "after", "among", "an", "and", "are", "at", "be",
     "been", "before", "being", "below", "between", "but", "by", "can",
     "could", "did", "do", "does", "during", "for", "from", "had", "has",
     "have", "he", "her", "him", "i", "in", "into", "is", "it", "may", "me",
     "might", "must", "of", "on", "or", "shall", "she", "should", "that",
     "the", "them", "these", "they", "this", "those", "through", "to", "up",
     "us", "was", "we", "were", "will", "with", "would", "you"}

technical_keywords ==
    [programming_languages |->
        {"python", "java", "javascript", "typescript", "c++", "c#", "ruby",
         "php", "go", "rust", "swift", "kotlin", "scala", "r", "matlab",
         "sql", "html", "css", "dart", "perl"},
     frameworks |->
        {"react", "angular", "vue", "django", "flask", "spring", "express",
         "nodejs", "laravel", "rails", "asp.net", "bootstrap", "jquery",
         "ember", "backbone", "next.js", "nuxt.js"},
     databases |->
        {"mysql", "postgresql", "mongodb", "redis", "cassandra",
         "elasticsearch", "dynamodb", "oracle", "sqlite", "mariadb",
         "couchdb", "neo4j", "influxdb", "snowflake"},
     cloud_platforms |->
        {"aws", "azure", "gcp", "google cloud", "amazon web services",
         "microsoft azure", "digitalocean", "heroku", "vercel", "netlify",
         "cloudflare", "oracle cloud"},
     devops_tools |->
        {"docker", "kubernetes", "jenkins", "gitlab", "github", "terraform",
         "ansible", "chef", "puppet", "vagrant", "circleci", "travis ci",
         "bamboo", "octopus deploy"},
     data_science |->
        {"machine learning", "artificial intelligence", "deep learning",
         "neural networks", "pandas", "numpy", "scikit-learn", "tensorflow",
         "pytorch", "keras", "spark", "hadoop", "tableau", "power bi",
         "excel", "statistics", "data analysis"},
     security |->
        {"cybersecurity", "information security", "penetration testing",
         "vulnerability assessment", "encryption", "firewall", "antivirus",
         "malware", "phishing", "ssl", "tls", "oauth"},
     mobile |->
        {"ios", "android", "react native", "flutter", "xamarin", "cordova",
         "phonegap", "swift", "objective-c", "java", "kotlin",
         "mobile development"},
     testing |->
        {"unit testing", "integration testing", "automated testing",
         "selenium", "cypress", "jest", "mocha", "pytest", "junit", "testng",
         "cucumber", "postman"}]

industry_keywords ==
    [technology |->
        {"software development", "agile", "scrum", "devops", "microservices",
         "api", "rest", "graphql", "cloud computing", "serverless",
         "containerization", "ci/cd", "git", "version control", "code review",
         "technical documentation", "system architecture", "scalability",
         "performance optimization", "debugging", "troubleshooting"},
     healthcare |->
        {"patient care", "clinical experience", "medical records", "hipaa",
         "ehr", "emr", "healthcare", "nursing", "pharmacy", "radiology",
         "laboratory", "diagnosis", "treatment", "medication", "surgery",
         "rehabilitation", "telemedicine", "medical devices",
         "clinical trials", "healthcare administration"},
     finance |->
        {"financial analysis", "investment", "portfolio management",
         "risk management", "compliance", "audit", "accounting", "budgeting",
         "forecasting", "valuation", "derivatives", "securities", "banking",
         "insurance", "fintech", "blockchain", "cryptocurrency", "trading",
         "wealth management", "financial modeling"},
     marketing |->
        {"digital marketing", "seo", "sem", "social media",
         "content marketing", "email marketing", "ppc", "analytics",
         "conversion optimization", "brand management", "campaign management",
         "market research", "customer acquisition", "lead generation", "crm",
         "marketing automation"},
     sales |->
        {"sales development", "lead generation", "prospecting", "closing",
         "negotiation", "relationship building", "crm", "pipeline management",
         "quota attainment", "customer retention", "upselling",
         "cross-selling", "territory management", "account management",
         "sales forecasting", "sales training"},
     education |->
        {"curriculum development", "lesson planning", "classroom management",
         "student assessment", "educational technology",
         "learning management systems", "pedagogy", "instructional design",
         "differentiated instruction", "special education", "esl",
         "standardized testing", "parent communication",
         "professional development"},
     manufacturing |->
        {"lean manufacturing", "six sigma", "quality control", "supply chain",
         "inventory management", "production planning", "process improvement",
         "safety protocols", "equipment maintenance", "iso standards",
         "continuous improvement", "waste reduction",
         "efficiency optimization"},
     consulting |->
        {"client management", "project management", "stakeholder engagement",
         "business analysis", "process improvement", "change management",
         "strategic planning", "problem solving", "presentation skills",
         "client relations", "proposal writing", "requirement gathering"}]

skill_priorities ==
    [technology |->
        [critical |->
            {"programming", "software development", "problem solving",
             "debugging"},
         important |->
            {"version control", "testing", "agile", "collaboration"},
         nice_to_have |->
            {"devops", "cloud", "machine learning", "mobile development"}],
     healthcare |->
        [critical |->
            {"patient care", "clinical skills", "medical knowledge",
             "communication"},
         important |->
            {"teamwork", "attention to detail", "empathy", "time management"},
         nice_to_have |->
            {"technology skills", "research", "leadership", "teaching"}],
     finance |->
        [critical |->
            {"financial analysis", "excel", "analytical thinking",
             "attention to detail"},
         important |->
            {"communication", "teamwork", "time management",
             "presentation skills"},
         nice_to_have |->
            {"programming", "data visualization", "project management",
             "leadership"}]]

\* Every term of every category of a dictionary
TermsOf(dictionary) == UNION {dictionary[category] : category \in DOMAIN dictionary}
technical_terms == TermsOf(technical_keywords)
industry_terms == TermsOf(industry_keywords)

\* re.search(r'\b\w+\s+(t1|t2|...)\b', phrase)
WordThenTerm(phrase, terms) ==
    \E t \in terms, j \in 1..Len(phrase) :
        /\ StartsAt(phrase, t, j)
        /\ WordBoundary(phrase, j + Len(t))
        /\ \E i \in 1..(j - 2) :
              /\ IsWord(Char(phrase, i))
              /\ \A k \in (i + 1)..(j - 1) : IsSpace(Char(phrase, k))

\* re.search(r'\b(t1|t2|...)\s+\w+\b', phrase)
TermThenWord(phrase, terms) ==
    \E t \in terms, j \in 1..Len(phrase) :
        /\ StartsAt(phrase, t, j)
        /\ WordBoundary(phrase, j)
        /\ \E i \in (j + Len(t) + 1)..Len(phrase) :
              /\ IsWord(Char(phrase, i))
              /\ \A k \in (j + Len(t))..(i - 1) : IsSpace(Char(phrase, k))

\* _is_relevant_phrase
IsRelevantPhrase(phrase) ==
    \/ phrase \in technical_terms
    \/ phrase \in industry_terms
    \/ WordThenTerm(phrase, {"development", "programming", "management",
                             "analysis", "design"})
    \/ TermThenWord(phrase, {"web", "mobile", "software", "data", "system"})
    \/ WordThenTerm(phrase, {"engineer", "developer", "analyst", "manager",
                             "specialist"})

\* The single words extract_keywords keeps
IsMeaningfulWord(word) ==
    /\ Len(word) > 2
    /\ word \notin stop_words
    /\ ~IsDigitString(word)
    /\ \A i \in 1..Len(word) : IsAlpha(Char(word, i)) \/ Char(word, i) = "-"

\* extract_keywords of the cleaned text and its words
KeywordsOfWords(text, words) ==
    {term \in technical_terms : Contains(text, term)}
    \cup {words[i] : i \in {j \in 1..Len(words) : IsMeaningfulWord(words[j])}}
    \cup {bigram \in {words[i] \o " " \o words[i + 1] : i \in 1..(Len(words) - 1)} :
            IsRelevantPhrase(bigram)}
    \cup {trigram \in {words[i] \o " " \o words[i + 1] \o " " \o words[i + 2] :
                        i \in 1..(Len(words) - 2)} :
            IsRelevantPhrase(trigram)}

\* extract_keywords, as a set (the code returns list(keywords))
ExtractKeywords(text0) ==
    IF text0 = "" THEN {}
    ELSE Value({ Value({ KeywordsOfWords(text, words) : words \in {Split(text)} })
                 : text \in {CollapseSpaces(Strip(BlankPunctuation(Lower(text0))))} })

\* get_industry_keywords
GetIndustryKeywords(industry) ==
    IF industry = "" THEN {}
    ELSE IF Lower(industry) \in DOMAIN industry_keywords
    THEN industry_keywords[Lower(industry)]
    ELSE {}

\* get_industry_skills
GetIndustrySkills(industry) ==
    IF industry = "" THEN {}
    ELSE (CASE Lower(industry) = "technology" ->
                 technical_keywords.programming_languages
                 \cup technical_keywords.frameworks
                 \cup technical_keywords.databases
                 \cup technical_keywords.cloud_platforms
                 \cup technical_keywords.devops_tools
            [] Lower(industry) = "healthcare" ->
                 {"medical terminology", "patient care", "clinical documentation",
                  "hipaa compliance"}
            [] Lower(industry) = "finance" ->
                 {"financial modeling", "excel", "bloomberg terminal", "risk analysis"}
            [] OTHER -> {})
         \cup GetIndustryKeywords(industry)

\* get_skill_priorities
NoPriorities == [critical |-> {}, important |-> {}, nice_to_have |-> {}]
GetSkillPriorities(industry) ==
    IF industry = "" THEN NoPriorities
    ELSE IF Lower(industry) \in DOMAIN skill_priorities
    THEN skill_priorities[Lower(industry)]
    ELSE NoPriorities

\* The alternatives of soft_skill_patterns: <<w>> is the word w, <<v, w>> is
\* v.w, where . matches any character except a newline
soft_skill_patterns ==
    {<<"communication">>, <<"leadership">>, <<"teamwork">>, <<"problem", "solving">>,
     <<"analytical">>, <<"creative">>, <<"detail", "oriented">>,
     <<"time", "management">>, <<"project", "management">>,
     <<"critical", "thinking">>, <<"adaptability">>,
     <<"collaboration">>, <<"interpersonal">>, <<"presentation">>,
     <<"negotiation">>, <<"conflict", "resolution">>}

\* The length of the match of alternative alt at position i of text, 0 when
\* there is none
MatchLength(text, alt, i) ==
    IF Len(alt) = 1
    THEN (IF StartsAt(text, alt[1], i) THEN Len(alt[1]) ELSE 0)
    ELSE IF /\ StartsAt(text, alt[1], i)
            /\ i + Len(alt[1]) <= Len(text)
            /\ Char(text, i + Len(alt[1])) # "\n"
            /\ StartsAt(text, alt[2], i + Len(alt[1]) + 1)
    THEN Len(alt[1]) + 1 + Len(alt[2])
    ELSE 0

\* re.findall(r'\b(...)\b', text) over the three patterns, as a set.  No
\* match of a pattern can begin inside another match of it, so every
\* occurrence between word boundaries is found.
SoftSkillMatches(text) ==
    {SubSeq(text, m[1], m[1] + m[2] - 1) :
        m \in {p \in {<<i, MatchLength(text, alt, i)>> :
                        i \in 1..Len(text), alt \in soft_skill_patterns} :
                  /\ p[2] > 0
                  /\ WordBoundary(text, p[1])
                  /\ WordBoundary(text, p[1] + p[2])}}

\* extract_skills_from_text, as a set
ExtractSkillsFromText(text) ==
    IF text = "" THEN {}
    ELSE Value({ {skill \in technical_terms : Contains(text_lower, skill)}
                 \cup SoftSkillMatches(text_lower)
                 : text_lower \in {Lower(text)} })
(***************************************************************************)
(* Python values.  A value of type Any (the resume content and its         *)
(* sections) is None, [dict |-> d] or [list |-> xs]; a dict d is a record  *)
(* whose domain is the keys present.  A str field that is absent, None or  *)
(* '' is read as '': the code only tests such a field for truth.           *)
(***************************************************************************)
PyNone == [py_none |-> TRUE]
Dict(d) == [dict |-> d]
List(xs) == [list |-> xs]
EmptyDict == [key \in {} |-> ""]
IsDict(v) == "dict" \in DOMAIN v
IsList(v) == "list" \in DOMAIN v

\* bool(v)
Truthy(v) ==
    \/ IsDict(v) /\ DOMAIN v.dict # {}
    \/ IsList(v) /\ v.list # <<>>

\* d.get(key, default); d.get(key, '') and d.get(key) of a str field;
\* d.get(key, []) of a list of str
Get(d, key, default) == IF key \in DOMAIN d THEN d[key] ELSE default
GetStr(d, key) == IF key \in DOMAIN d THEN d[key] ELSE ""
GetList(d, key) == IF key \in DOMAIN d THEN d[key] ELSE <<>>

\* resume_content.get(section, {}) and .get(section, []) of a dict
Section(resume_content, key, default) == Get(resume_content.dict, key, default)

\* [str(x) for x in xs if x]
NonEmpty(xs) == SelectSeq(xs, LAMBDA x : x # "")

\* The items of a dict of lists in the order of its keys: a Skills object
\* lists technical, soft, languages, tools
skill_categories == <<"technical", "soft", "languages", "tools">>
RECURSIVE ValuesFrom(_, _)
ValuesFrom(skills, k) ==
    IF k > Len(skill_categories) THEN <<>>
    ELSE GetList(skills, skill_categories[k]) \o ValuesFrom(skills, k + 1)
SkillValues(skills) == ValuesFrom(skills, 1)

(***************************************************************************)
(* ATSAnalysisService (ats_analysis_service.py).                           *)
(***************************************************************************)
min_resume_length == 200
max_resume_length == 1000

\* The text parts of the jobs, the education entries, the projects and the
\* certifications, as _extract_resume_text collects them
RECURSIVE JobParts(_)
JobParts(jobs) ==
    IF jobs = <<>> THEN <<>>
    ELSE NonEmpty(<<GetStr(Head(jobs), "job_title"), GetStr(Head(jobs), "company")>>)
            \o NonEmpty(GetList(Head(jobs), "responsibilities"))
            \o JobParts(Tail(jobs))

RECURSIVE EducationParts(_)
EducationParts(education) ==
    IF education = <<>> THEN <<>>
    ELSE NonEmpty(<<GetStr(Head(education), "degree"),
                    GetStr(Head(education), "institution"),
                    GetStr(Head(education), "field_of_study")>>)
            \o EducationParts(Tail(education))

RECURSIVE ProjectParts(_)
ProjectParts(projects) ==
    IF projects = <<>> THEN <<>>
    ELSE NonEmpty(<<GetStr(Head(projects), "name"), GetStr(Head(projects), "description")>>)
            \o NonEmpty(GetList(Head(projects), "technologies"))
            \o ProjectParts(Tail(projects))

RECURSIVE CertificationParts(_)
CertificationParts(certifications) ==
    IF certifications = <<>> THEN <<>>
    ELSE NonEmpty(<<GetStr(Head(certifications), "name"),
                    GetStr(Head(certifications), "issuer")>>)
            \o CertificationParts(Tail(certifications))

\* f"{first_name} {last_name}".strip() when either is set
NameParts(personal_info) ==
    IF IsDict(personal_info)
       /\ (GetStr(personal_info.dict, "first_name") # ""
           \/ GetStr(personal_info.dict, "last_name") # "")
    THEN <<Strip(GetStr(personal_info.dict, "first_name") \o " "
                 \o GetStr(personal_info.dict, "last_name"))>>
    ELSE <<>>

ListParts(section) == IF IsList(section) THEN section.list ELSE <<>>

\* [part.strip() for part in text_parts if part and str(part).strip()]
RECURSIVE StripParts(_)
StripParts(text_parts) ==
    IF text_parts = <<>> THEN <<>>
    ELSE (IF Strip(Head(text_parts)) # "" THEN <<Strip(Head(text_parts))>> ELSE <<>>)
            \o StripParts(Tail(text_parts))

\* _extract_resume_text
ExtractResumeText(resume_content) ==
    LET summary == GetStr(resume_content.dict, "professional_summary")
        skills  == Section(resume_content, "skills", Dict(EmptyDict))
        text_parts ==
            NameParts(Section(resume_content, "personal_info", Dict(EmptyDict)))
            \o (IF summary # "" THEN <<Strip(summary)>> ELSE <<>>)
            \o JobParts(ListParts(Section(resume_content, "work_experience", List(<<>>))))
            \o EducationParts(ListParts(Section(resume_content, "education", List(<<>>))))
            \o (IF IsDict(skills) THEN NonEmpty(SkillValues(skills.dict)) ELSE <<>>)
            \o ProjectParts(ListParts(Section(resume_content, "projects", List(<<>>))))
            \o CertificationParts(ListParts(Section(resume_content, "certifications",
                                                    List(<<>>))))
    IN  Join(StripParts(text_parts), " ")

UpperChar(c) ==
    IF c \in CharsOf(Lowercase)
    THEN Char(Uppercase, CHOOSE i \in 1..Len(Lowercase) : Char(Lowercase, i) = c)
    ELSE c

\* name.replace('_', ' ')
RECURSIVE SpaceUnderscores(_)
SpaceUnderscores(s) ==
    IF s = "" THEN ""
    ELSE (IF Char(s, 1) = "_" THEN " " ELSE Char(s, 1)) \o SpaceUnderscores(Tail(s))

\* str.title(): a letter is upper case after a non-letter, lower case after
\* a letter
RECURSIVE TitleFrom(_, _)
TitleFrom(s, i) ==
    IF i > Len(s) THEN ""
    ELSE (IF i > 1 /\ IsAlpha(Char(s, i - 1))
          THEN LowerChar(Char(s, i))
          ELSE UpperChar(Char(s, i))) \o TitleFrom(s, i + 1)
Title(s) == TitleFrom(s, 1)

\* Faulty variant of MissingSections: only the sections that are there
\* and empty
RECURSIVE EmptySections(_, _)
EmptySections(resume_content, sections) ==
    IF sections = <<>> THEN <<>>
    ELSE (IF /\ Head(sections) \in DOMAIN resume_content.dict
             /\ ~Truthy(resume_content.dict[Head(sections)])
          THEN <<Head(sections)>> ELSE <<>>)
            \o EmptySections(resume_content, Tail(sections))

\* [section for section in sections if not resume_content.get(section)]
RECURSIVE MissingSections(_, _)
MissingSections(resume_content, sections) ==
    IF sections = <<>> THEN <<>>
    ELSE (IF Truthy(Section(resume_content, Head(sections), PyNone))
          THEN <<>> ELSE <<Head(sections)>>)
            \o MissingSections(resume_content, Tail(sections))

\* [field for field in fields if not personal_info.get(field)]
RECURSIVE MissingFields(_, _)
MissingFields(personal_info, fields) ==
    IF fields = <<>> THEN <<>>
    ELSE (IF GetStr(personal_info, Head(fields)) # "" THEN <<>> ELSE <<Head(fields)>>)
            \o MissingFields(personal_info, Tail(fields))

\* Faulty variant of JobIssues: one issue for a job that lacks any item
RECURSIVE JobIssuesOnce(_, _)
JobIssuesOnce(work_exp, i) ==
    IF i > Len(work_exp) THEN <<>>
    ELSE (IF \/ GetStr(work_exp[i], "job_title") = ""
             \/ GetStr(work_exp[i], "company") = ""
             \/ GetList(work_exp[i], "responsibilities") = <<>>
          THEN <<"Work experience " \o ToString(i) \o ": Missing job title">> ELSE <<>>)
         \o JobIssuesOnce(work_exp, i + 1)

\* The issues of the work-experience loop of _analyze_formatting from job
\* i on, 5 points each
RECURSIVE JobIssues(_, _)
JobIssues(work_exp, i) ==
    IF i > Len(work_exp) THEN <<>>
    ELSE (IF GetStr(work_exp[i], "job_title") = ""
          THEN <<"Work experience " \o ToString(i) \o ": Missing job title">> ELSE <<>>)
         \o (IF GetStr(work_exp[i], "company") = ""
             THEN <<"Work experience " \o ToString(i) \o ": Missing company name">>
             ELSE <<>>)
         \o (IF GetList(work_exp[i], "responsibilities") = <<>>
             THEN <<"Work experience " \o ToString(i) \o ": Missing responsibilities">>
             ELSE <<>>)
         \o JobIssues(work_exp, i + 1)

\* date_formats of _analyze_formatting
RECURSIVE DateFormats(_)
DateFormats(work_exp) ==
    IF work_exp = <<>> THEN <<>>
    ELSE NonEmpty(<<GetStr(Head(work_exp), "start_date"), GetStr(Head(work_exp), "end_date")>>)
            \o DateFormats(Tail(work_exp))

RECURSIVE MissingSectionIssues(_)
MissingSectionIssues(missing_sections) ==
    IF missing_sections = <<>> THEN <<>>
    ELSE <<"Missing " \o Title(SpaceUnderscores(Head(missing_sections))) \o " section">>
            \o MissingSectionIssues(Tail(missing_sections))

RECURSIVE MissingFieldIssues(_)
MissingFieldIssues(missing_personal) ==
    IF missing_personal = <<>> THEN <<>>
    ELSE <<"Missing " \o SpaceUnderscores(Head(missing_personal))>>
            \o MissingFieldIssues(Tail(missing_personal))

\* The TypeError of "for job in work_exp" when work_exp is None
FormattingRaises(resume_content) ==
    ~IsList(Section(resume_content, "work_experience", List(<<>>)))

\* Faulty variant of FormattingFallback: the error scores nothing
FormattingFallbackZero ==
    [score |-> 0, issues |-> <<"Error analyzing formatting">>]

\* What _analyze_formatting returns from its except branch
FormattingFallback ==
    [score |-> 50, issues |-> <<"Error analyzing formatting">>]

\* _analyze_formatting: the score and the issues
AnalyzeFormatting(resume_content) ==
    IF FormattingRaises(resume_content)
    THEN FormattingFallback
    ELSE
      LET missing_sections ==
              MissingSections(resume_content,
                  <<"personal_info", "work_experience", "education", "skills">>)
          personal_info == Section(resume_content, "personal_info", Dict(EmptyDict))
          missing_personal ==
              IF IsDict(personal_info)
              THEN MissingFields(personal_info.dict,
                       <<"first_name", "last_name", "email", "phone">>)
              ELSE <<>>
          no_summary == GetStr(resume_content.dict, "professional_summary") = ""
          work_exp == Section(resume_content, "work_experience", List(<<>>)).list
          job_issues == JobIssues(work_exp, 1)
          date_formats == DateFormats(work_exp)
          inconsistent ==
              Cardinality({Len(date_formats[i]) : i \in 1..Len(date_formats)}) > 1
      IN  [score |->
              Max(0, 100 - Len(missing_sections) * 15 - Len(missing_personal) * 5
                         - (IF no_summary THEN 10 ELSE 0) - Len(job_issues) * 5
                         - (IF inconsistent THEN 5 ELSE 0)),
           issues |->
              MissingSectionIssues(missing_sections)
                  \o MissingFieldIssues(missing_personal)
                  \o (IF no_summary THEN <<"Missing professional summary">> ELSE <<>>)
                  \o job_issues
                  \o (IF inconsistent THEN <<"Inconsistent date formatting">> ELSE <<>>)]

\* len(a) / len(b) and len(a) / len(b) * 100
Ratio(k, n) == FDiv(FFromInt(k), FFromInt(n))
Percentage(k, n) == FMul(Ratio(k, n), FFromInt(100))

\* The density bonus of _calculate_keyword_score
\* Faulty variant of DensityBonus: a density of exactly 2 or 8 earns nothing
DensityBonusOpen(keyword_density) ==
    IF FLt(FFromInt(2), keyword_density) /\ FLt(keyword_density, FFromInt(8)) THEN 10
    ELSE IF FGt(keyword_density, FFromInt(15)) THEN -10
    ELSE 0

DensityBonus(keyword_density) ==
    IF FLe(FFromInt(2), keyword_density) /\ FLe(keyword_density, FFromInt(8)) THEN 10
    ELSE IF FGt(keyword_density, FFromInt(15)) THEN -10
    ELSE 0

\* Faulty variant of ClampScore: no upper or lower limit
Unclamped(score) == score

\* min(100, max(0, score))
ClampScore(score) == Min(100, Max(0, score))

\* _calculate_keyword_score
CalculateKeywordScore(resume_keywords, job_keywords, industry_kws, resume_text) ==
    LET base == IF resume_keywords # {}
                THEN Min(50, Cardinality(resume_keywords) * 2) ELSE 0
        job  == IF job_keywords # {}
                THEN FTrunc(FMul(Ratio(Cardinality(resume_keywords \cap job_keywords),
                                       Cardinality(job_keywords)),
                                 FFromInt(30)))
                ELSE 0
        industry ==
                IF industry_kws # {}
                THEN FTrunc(FMul(Ratio(Cardinality(resume_keywords \cap industry_kws),
                                       Cardinality(industry_kws)),
                                 FFromInt(20)))
                ELSE 0
        word_count == Len(Split(resume_text))
        density == IF resume_text # "" /\ word_count > 0
                   THEN DensityBonus(Percentage(Cardinality(resume_keywords), word_count))
                   ELSE 0
    IN  ClampScore(base + job + industry + density)

\* [kw for kw in job_keywords if kw not in resume_keywords][:10], given
\* every such kw: job_keywords is the list of a set of str, whose order is
\* arbitrary, so any 10 may come first
MissingKeywordChoices(missing) ==
    IF Cardinality(missing) <= 10 THEN {missing}
    ELSE {kws \in SUBSET missing : Cardinality(kws) = 10}

\* _analyze_keywords, with every missing keyword in missing_keywords: the
\* cut to 10 is MissingKeywordChoices
AnalyzeKeywords(resume_text0, job_description, target_industry) ==
    LET resume_text == Lower(resume_text0)
        resume_keywords == ExtractKeywords(resume_text)
        industry_kws == IF target_industry # ""
                             THEN GetIndustryKeywords(target_industry) ELSE {}
        job_keywords == IF job_description # ""
                        THEN ExtractKeywords(Lower(job_description)) ELSE {}
        total_words == IF resume_text # "" THEN Len(Split(resume_text)) ELSE 1
    IN  [score |-> CalculateKeywordScore(resume_keywords, job_keywords,
                                         industry_kws, resume_text),
         total_keywords |-> Cardinality(resume_keywords),
         resume_keywords |-> resume_keywords,
         industry_keywords |-> industry_kws,
         job_keywords |-> job_keywords,
         matched_keywords |-> resume_keywords \cap job_keywords,
         missing_keywords |-> job_keywords \ resume_keywords,
         keyword_density |-> Percentage(Cardinality(resume_keywords), total_words),
         job_match_percentage |->
             IF job_keywords # {}
             THEN Percentage(Cardinality(resume_keywords \cap job_keywords),
                             Cardinality(job_keywords))
             ELSE PyNone]

\* The responsibilities of the jobs, in order
RECURSIVE Responsibilities(_)
Responsibilities(work_exp) ==
    IF work_exp = <<>> THEN <<>>
    ELSE GetList(Head(work_exp), "responsibilities") \o Responsibilities(Tail(work_exp))

\* re.search(r'\d+[%$]?|\$\d+|increased|reduced|improved|grew|saved', s):
\* the first two alternatives match exactly when s has a digit
IsQuantified(s) ==
    \/ \E i \in 1..Len(s) : IsDigit(Char(s, i))
    \/ \E word \in {"increased", "reduced", "improved", "grew", "saved"} : Contains(s, word)

\* _has_quantifiable_achievements
HasQuantifiableAchievements(resume_content) ==
    LET work_exp == Section(resume_content, "work_experience", List(<<>>))
        resps    == Responsibilities(ListParts(work_exp))
    IN  \E i \in 1..Len(resps) : IsQuantified(Lower(resps[i]))

action_verbs ==
    {"achieved", "administered", "analyzed", "built", "created", "developed",
     "implemented", "improved", "increased", "led", "managed", "organized",
     "reduced", "streamlined", "supervised", "designed", "executed", "delivered"}

\* Faulty variant of CountActionVerbs: the verbs anywhere in a bullet
CountActionVerbsAnywhere(resume_content) ==
    LET work_exp == Section(resume_content, "work_experience", List(<<>>))
        resps    == Responsibilities(ListParts(work_exp))
        any_words ==
            UNION {{RStripPunctuation(Split(Lower(resps[i]))[k]) :
                       k \in 1..Len(Split(Lower(resps[i])))} : i \in 1..Len(resps)}
    IN  any_words \cap action_verbs

\* _count_action_verbs, as a set
CountActionVerbs(resume_content) ==
    LET work_exp == Section(resume_content, "work_experience", List(<<>>))
        resps    == Responsibilities(ListParts(work_exp))
        first_words ==
            {RStripPunctuation(Split(Lower(resps[i]))[1]) :
                i \in {j \in 1..Len(resps) : Split(Lower(resps[j])) # <<>>}}
    IN  first_words \cap action_verbs

\* _analyze_content_structure: the score, the word count and the verbs
AnalyzeContentStructure(resume_content, resume_text) ==
    LET word_count == IF resume_text # "" THEN Len(Split(resume_text)) ELSE 0
        work_exp == Section(resume_content, "work_experience", List(<<>>))
        lacks_detail ==
            /\ IsList(work_exp) /\ work_exp.list # <<>>
            /\ FLt(Ratio(Len(Responsibilities(work_exp.list)), Len(work_exp.list)),
                   FFromInt(2))
        skills == Section(resume_content, "skills", Dict(EmptyDict))
        total_skills == IF IsDict(skills) THEN Len(SkillValues(skills.dict)) ELSE 0
        action_verbs_used == CountActionVerbs(resume_content)
    IN  [score |-> Max(0, 100
                        - (IF word_count < min_resume_length THEN 20
                           ELSE IF word_count > max_resume_length THEN 10 ELSE 0)
                        - (IF lacks_detail THEN 15 ELSE 0)
                        - (IF ~HasQuantifiableAchievements(resume_content) THEN 15 ELSE 0)
                        - (IF IsDict(skills) /\ total_skills < 5 THEN 10
                           ELSE IF IsDict(skills) /\ total_skills > 30 THEN 5 ELSE 0)
                        - (IF Cardinality(action_verbs_used) < 3 THEN 10 ELSE 0)),
         word_count |-> word_count,
         action_verbs_used |-> action_verbs_used]

\* re.split(r'[.!?]+', text), the pieces that are not blank
Sentences(resume_text) ==
    SelectSeq(Runs(resume_text,
                   {i \in 1..Len(resume_text) : Char(resume_text, i) \notin {".", "!", "?"}}),
              LAMBDA s : Strip(s) # "")

RECURSIVE SumLen(_)
SumLen(words) ==
    IF Len(words) = 0 THEN 0
    ELSE IF Len(words) = 1 THEN Len(words[1])
    ELSE SumLen(SubSeq(words, 1, Len(words) \div 2))
            + SumLen(SubSeq(words, Len(words) \div 2 + 1, Len(words)))

\* 100 - abs(average - optimum) * weight
LengthScore(average, optimum, weight) ==
    FSub(FFromInt(100), FMul(FAbs(FSub(average, FFromInt(optimum))), FFromInt(weight)))

\* _analyze_readability
AnalyzeReadability(resume_text) ==
    IF Strip(resume_text) = "" THEN 0
    ELSE
      LET sentences == Sentences(resume_text)
          words     == Split(resume_text)
      IN  IF sentences = <<>> \/ words = <<>> THEN 0
          ELSE Max(0, Min(100,
                   FTrunc(FDiv(FAdd(LengthScore(Ratio(Len(words), Len(sentences)), 15, 2),
                                    LengthScore(Ratio(SumLen(words), Len(words)), 5, 10)),
                               FFromInt(2)))))

\* The float literals 0.25, 0.35, 0.15: the floats nearest to percent / 100
Weight(percent) == Ratio(percent, 100)

\* _calculate_overall_ats_score
CalculateOverallATSScore(formatting, keyword, content, readability) ==
    FTrunc(FAdd(FAdd(FAdd(FMul(FFromInt(formatting), Weight(25)),
                          FMul(FFromInt(keyword), Weight(35))),
                     FMul(FFromInt(content), Weight(25))),
                FMul(FFromInt(readability), Weight(15))))

\* current_skills of _analyze_skill_gaps
CurrentSkills(resume_content) ==
    LET skills_section == Section(resume_content, "skills", Dict(EmptyDict))
        listed == IF IsDict(skills_section)
                  THEN NonEmpty(SkillValues(skills_section.dict)) ELSE <<>>
    IN  {Lower(listed[i]) : i \in 1..Len(listed)}

\* required_skills of _analyze_skill_gaps
RequiredSkills(job_description, target_industry) ==
    (IF job_description # ""
     THEN {Lower(skill) : skill \in ExtractSkillsFromText(job_description)} ELSE {})
    \cup (IF target_industry # ""
          THEN {Lower(skill) : skill \in GetIndustrySkills(target_industry)} ELSE {})

\* Faulty variant of MatchingSkills: every current skill counts as matching
MatchingAll(required_skills, current_skills) == current_skills

\* list(required_skills & current_skills)
MatchingSkills(required_skills, current_skills) == required_skills \cap current_skills

\* Faulty variant of NiceToHaveMissing: only the skills the table lists
NiceToHaveListed(missing_skills, priorities) ==
    missing_skills \cap priorities.nice_to_have

\* The else branch of the priority loop
NiceToHaveMissing(missing_skills, priorities) ==
    {skill \in missing_skills :
        skill \notin priorities.critical /\ skill \notin priorities.important}

\* Faulty variant of SkillMatchPercentage: 0.0 for no required skills
SkillMatchOrZero(matching_skills, required_skills) ==
    IF required_skills # {}
    THEN Percentage(Cardinality(matching_skills), Cardinality(required_skills))
    ELSE FZero

\* len(matching_skills) / len(required_skills) * 100 if required_skills
\* else 100
SkillMatchPercentage(matching_skills, required_skills) ==
    IF required_skills # {}
    THEN Percentage(Cardinality(matching_skills), Cardinality(required_skills))
    ELSE FFromInt(100)

\* _analyze_skill_gaps; the lists of the result are sets in arbitrary order
AnalyzeSkillGaps(resume_content, job_description, target_industry) ==
    LET current_skills   == CurrentSkills(resume_content)
        required_skills  == RequiredSkills(job_description, target_industry)
        missing_skills   == required_skills \ current_skills
        matching_skills  == MatchingSkills(required_skills, current_skills)
        priorities       == GetSkillPriorities(target_industry)
    IN  [current_skills  |-> current_skills,
         required_skills |-> required_skills,
         missing_skills  |-> missing_skills,
         matching_skills |-> matching_skills,
         critical_missing  |-> missing_skills \cap priorities.critical,
         important_missing |->
             (missing_skills \ priorities.critical) \cap priorities.important,
         nice_to_have_missing |-> NiceToHaveMissing(missing_skills, priorities),
         skill_match_percentage |->
             SkillMatchPercentage(matching_skills, required_skills)]

\* f"{x:.1f}" for a float 0 <= x: x * 10 rounded to the nearest integer,
\* ties to even, with the last digit after the point
FormatOneDecimal(x) ==
    IF x.m = <<>> THEN "0.0"
    ELSE
      LET tenfold == BMulSmall(x.m, 10)
          whole   == IF x.e >= 0 THEN [q |-> BShl(tenfold, x.e), lost |-> FALSE]
                     ELSE BShr(tenfold, -x.e - 1)
          half    == x.e < 0 /\ BOdd(whole.q)
          floor   == IF x.e >= 0 THEN whole.q ELSE BShr(whole.q, 1).q
          up      == half /\ (whole.lost \/ BOdd(floor))
          tenths  == BToInt(floor) + (IF up THEN 1 ELSE 0)
      IN  ToString(tenths \div 10) \o "." \o ToString(tenths % 10)

\* Faulty variant of FirstIssues: the issues are not cut
EveryIssue(issues) == issues

\* issues[:3]
FirstIssues(issues) == SubSeq(issues, 1, Min(3, Len(issues)))

\* Rule 1: one item for each of the first three formatting issues
RECURSIVE FormattingRecommendations(_)
FormattingRecommendations(issues) ==
    IF issues = <<>> THEN <<>>
    ELSE <<[category |-> "formatting", priority |-> "high",
            title |-> "Fix Resume Structure", description |-> Head(issues)]>>
            \o FormattingRecommendations(Tail(issues))

\* keyword_analysis.missing_keywords[:5]: any 5 of them may come first
NamedKeywordChoices(missing_keywords) ==
    IF Cardinality(missing_keywords) <= 5 THEN {missing_keywords}
    ELSE {kws \in SUBSET missing_keywords : Cardinality(kws) = 5}

\* Rule 2
KeywordRecommendation ==
    [category |-> "keywords", priority |-> "high",
     title |-> "Improve Keyword Optimization",
     description |-> "Your resume lacks relevant keywords for ATS systems"]

\* Rule 3; named_keywords are the keywords its first action item lists
JobMatchRecommendation(job_match_percentage, named_keywords) ==
    [category |-> "job_match", priority |-> "medium",
     title |-> "Improve Job Description Alignment",
     description |-> "Only " \o FormatOneDecimal(job_match_percentage)
                        \o "% match with job requirements",
     named_keywords |-> named_keywords]

\* Rule 4
LengthRecommendation ==
    [category |-> "content", priority |-> "medium",
     title |-> "Expand Resume Content",
     description |-> "Resume is too brief and may lack sufficient detail"]

\* Faulty variant of ReadabilityRecommendation: rule 5 emits a HIGH item
ReadabilityRecommendationHigh ==
    [category |-> "readability", priority |-> "high",
     title |-> "Improve Resume Clarity",
     description |-> "Resume could be clearer and more readable"]

\* Rule 5
ReadabilityRecommendation ==
    [category |-> "readability", priority |-> "low",
     title |-> "Improve Resume Clarity",
     description |-> "Resume could be clearer and more readable"]

\* Rule 6
ActionVerbRecommendation ==
    [category |-> "content", priority |-> "low",
     title |-> "Use Stronger Action Verbs",
     description |->
         "Limited use of powerful action verbs in experience descriptions"]

\* keyword_analysis.job_match_percentage and ... < 60: None and 0.0 are
\* false
JobMatchIsLow(job_match_percentage) ==
    /\ job_match_percentage # PyNone
    /\ job_match_percentage # FZero
    /\ FLt(job_match_percentage, FFromInt(60))

\* Faulty variant of OtherRecommendations: rule 6 asks for fewer than 3
\* action verbs, the number the content score asks for
OtherRecommendationsThreeVerbs(keyword_analysis, content_analysis, readability_score, named_keywords) ==
    (IF keyword_analysis.score < 70 THEN <<KeywordRecommendation>> ELSE <<>>)
    \o (IF JobMatchIsLow(keyword_analysis.job_match_percentage)
        THEN <<JobMatchRecommendation(keyword_analysis.job_match_percentage,
                                      named_keywords)>>
        ELSE <<>>)
    \o (IF content_analysis.word_count < min_resume_length
        THEN <<LengthRecommendation>> ELSE <<>>)
    \o (IF readability_score < 70 THEN <<ReadabilityRecommendation>> ELSE <<>>)
    \o (IF Cardinality(content_analysis.action_verbs_used) < 3
        THEN <<ActionVerbRecommendation>> ELSE <<>>)

\* The items of rules 2 to 6 in rule order
OtherRecommendations(keyword_analysis, content_analysis, readability_score, named_keywords) ==
    (IF keyword_analysis.score < 70 THEN <<KeywordRecommendation>> ELSE <<>>)
    \o (IF JobMatchIsLow(keyword_analysis.job_match_percentage)
        THEN <<JobMatchRecommendation(keyword_analysis.job_match_percentage,
                                      named_keywords)>>
        ELSE <<>>)
    \o (IF content_analysis.word_count < min_resume_length
        THEN <<LengthRecommendation>> ELSE <<>>)
    \o (IF readability_score < 70 THEN <<ReadabilityRecommendation>> ELSE <<>>)
    \o (IF Cardinality(content_analysis.action_verbs_used) < 5
        THEN <<ActionVerbRecommendation>> ELSE <<>>)

max_recommendations == 10

\* recommendations[:10]
TopTen(recommendations) ==
    SubSeq(recommendations, 1, Min(max_recommendations, Len(recommendations)))

\* Faulty variant of GenerateATSRecommendations: every formatting issue gets an
\* item and the list is not cut
GenerateUncut(formatting_score, keyword_analysis, content_analysis, readability_score, named_keywords) ==
    (IF formatting_score.score < 80
     THEN FormattingRecommendations(formatting_score.issues) ELSE <<>>)
    \o OtherRecommendations(keyword_analysis, content_analysis, readability_score,
                            named_keywords)

\* _generate_ats_recommendations
GenerateATSRecommendations(formatting_score, keyword_analysis, content_analysis, readability_score, named_keywords) ==
    TopTen((IF formatting_score.score < 80
            THEN FormattingRecommendations(FirstIssues(formatting_score.issues))
            ELSE <<>>)
           \o OtherRecommendations(keyword_analysis, content_analysis, readability_score,
                                   named_keywords))

\* industry_data of _get_industry_insights
industry_data ==
    [technology |->
        [avg_ats_score |-> 75, typical_resume_length |-> "600-800 words",
         trending_skills |-> <<"AI/ML", "Cloud Computing", "DevOps", "Cybersecurity">>],
     healthcare |->
        [avg_ats_score |-> 70, typical_resume_length |-> "500-700 words",
         trending_skills |-> <<"Telemedicine", "Electronic Health Records",
                               "Patient Care">>],
     finance |->
        [avg_ats_score |-> 72, typical_resume_length |-> "550-750 words",
         trending_skills |-> <<"Financial Modeling", "Risk Management", "Compliance">>]]

\* _get_industry_insights; {} is EmptyDict
GetIndustryInsights(target_industry, resume_content) ==
    IF target_industry = "" THEN EmptyDict
    ELSE IF Lower(target_industry) \notin DOMAIN industry_data
    THEN [industry |-> target_industry, benchmarks |-> EmptyDict,
          trends |-> <<>>, recommendations |-> <<>>]
    ELSE
      LET industry_info == industry_data[Lower(target_industry)]
          current_skills == CurrentSkills(resume_content)
          missing_trending ==
              SelectSeq(industry_info.trending_skills,
                        LAMBDA skill : Lower(skill) \notin current_skills)
      IN  [industry |-> target_industry,
           benchmarks |-> [average_ats_score |-> industry_info.avg_ats_score,
                           recommended_length |-> industry_info.typical_resume_length],
           trends |-> industry_info.trending_skills,
           recommendations |->
               IF missing_trending = <<>> THEN <<>>
               ELSE <<"Consider adding trending " \o target_industry \o " skills: "
                      \o Join(SubSeq(missing_trending, 1, Min(3, Len(missing_trending))),
                              ", ")>>]

\* Faulty variant of InputError: "not isinstance(resume_content, dict)" alone,
\* so that an empty dict passes the first check
InputErrorTypeOnly(resume_content) ==
    IF ~IsDict(resume_content)
    THEN "Invalid resume content provided"
    ELSE IF Strip(ExtractResumeText(resume_content)) = ""
    THEN "Resume content appears to be empty"
    ELSE ""

\* The ValueError analyze_resume raises before any scoring, "" for none
InputError(resume_content) ==
    IF ~IsDict(resume_content) \/ DOMAIN resume_content.dict = {}
    THEN "Invalid resume content provided"
    ELSE IF Strip(ExtractResumeText(resume_content)) = ""
    THEN "Resume content appears to be empty"
    ELSE ""

\* The ATSAnalysisResult of analyze_resume for a resume that passes
\* InputError, with every missing keyword in missing_keywords and in the
\* job_match recommendation
AnalysisResult(resume_content, job_description, target_industry, timestamp) ==
    LET resume_text       == ExtractResumeText(resume_content)
        formatting_score  == AnalyzeFormatting(resume_content)
        keyword_analysis  == Value({ AnalyzeKeywords(text, job_description, target_industry)
                                     : text \in {resume_text} })
        content_analysis  == AnalyzeContentStructure(resume_content, resume_text)
        readability_score == AnalyzeReadability(resume_text)
    IN  [overall_ats_score |->
             CalculateOverallATSScore(formatting_score.score, keyword_analysis.score,
                                      content_analysis.score, readability_score),
         formatting_score |-> formatting_score.score,
         keyword_score |-> keyword_analysis.score,
         content_structure_score |-> content_analysis.score,
         readability_score |-> readability_score,
         keyword_analysis |-> keyword_analysis,
         skill_gaps |-> AnalyzeSkillGaps(resume_content, job_description, target_industry),
         recommendations |->
             GenerateATSRecommendations(formatting_score, keyword_analysis,
                                        content_analysis, readability_score,
                                        keyword_analysis.missing_keywords),
         industry_insights |-> GetIndustryInsights(target_industry, resume_content),
         analysis_timestamp |-> timestamp,
         job_match_percentage |->
             IF job_description # "" THEN keyword_analysis.job_match_percentage
             ELSE PyNone]

\* analysis with missing_keywords cut to missing_keywords and the keywords
\* of the job_match recommendation to named_keywords
WithKeywordOrder(analysis, missing_keywords, named_keywords) ==
    [analysis EXCEPT
        !.keyword_analysis.missing_keywords = missing_keywords,
        !.recommendations =
            [i \in 1..Len(analysis.recommendations) |->
                IF analysis.recommendations[i].category = "job_match"
                THEN [analysis.recommendations[i] EXCEPT !.named_keywords = named_keywords]
                ELSE analysis.recommendations[i]]]

(***************************************************************************)
(* The requests of the model: resume contents from a complete resume to   *)
(* none at all, with and without a job description and a target industry. *)
(***************************************************************************)
complete_resume ==
    Dict([personal_info |->
            Dict([first_name |-> "Ann",
                  last_name |-> "Lee",
                  email |-> "ann@lee.io",
                  phone |-> "5550100200"]),
          professional_summary |->
            "Senior Python developer. Builds data pipelines!",
          work_experience |->
            List(<<[job_title |-> "Software Engineer",
                    company |-> "Acme",
                    start_date |-> "2020-01",
                    end_date |-> "2023-06",
                    responsibilities |-> <<"Developed REST APIs with Django.",
                                           "Led the move to Docker; reduced costs by 30%.",
                                           "Managed a team of 4.">>]>>),
          education |->
            List(<<[degree |-> "BSc",
                    institution |-> "MIT",
                    field_of_study |-> "Computer Science"]>>),
          skills |->
            Dict([technical |-> <<"Python", "Django", "Docker">>,
                  soft |-> <<"Communication">>,
                  tools |-> <<"Git", "AWS">>]),
          projects |->
            List(<<[name |-> "Ledger",
                    description |-> "Web app for budgeting",
                    technologies |-> <<"Flask">>]>>),
          certifications |->
            List(<<[name |-> "AWS Architect", issuer |-> "Amazon"]>>)])

sparse_resume ==
    Dict([personal_info |->
            Dict([first_name |-> "Ann"]),
          skills |->
            Dict([technical |-> <<"python">>])])

skills_only_resume ==
    Dict([skills |->
            Dict([technical |-> <<"PostgreSQL">>, soft |-> <<"teamwork", "">>])])

contact_only_resume ==
    Dict([personal_info |->
            Dict([first_name |-> "Ann",
                  last_name |-> "Lee",
                  email |-> "ann@lee.io",
                  phone |-> "5550100200"])])

null_work_resume ==
    Dict([personal_info |->
            Dict([first_name |-> "Ann",
                  last_name |-> "Lee",
                  email |-> "ann@lee.io",
                  phone |-> "5550100200"]),
          work_experience |->
            PyNone,
          skills |->
            Dict([technical |-> <<"Python", "SQL">>])])

titles_only_resume ==
    Dict([work_experience |->
            List(<<[job_title |-> "Analyst",
                    start_date |-> "2019",
                    end_date |-> "2020-05"],
                   [job_title |-> "Data Engineer"],
                   [job_title |-> "Manager"]>>)])

\* Six jobs with the same five responsibilities: more than 200 words, of
\* which few are different
long_job ==
    [job_title |-> "Engineer",
     company |-> "Acme",
     start_date |-> "2020-01",
     end_date |-> "2021-01",
     responsibilities |-> <<"Developed the billing api for the team.",
                            "Led the billing team for the api.",
                            "Managed the api team for the billing.",
                            "Built the team api for the billing.",
                            "Designed the billing api for the team.">>]

long_resume ==
    Dict([personal_info |->
            Dict([first_name |-> "Ann",
                  last_name |-> "Lee",
                  email |-> "ann@lee.io",
                  phone |-> "5550100200"]),
          professional_summary |->
            "Builds data pipelines.",
          work_experience |->
            List(<<long_job, long_job, long_job, long_job, long_job, long_job>>)])

\* Skills python, django and docker and a name
three_skills_resume ==
    Dict([personal_info |->
            Dict([first_name |-> "Ann", last_name |-> "Lee"]),
          skills |->
            Dict([technical |-> <<"python", "django", "docker">>])])

blank_resume ==
    Dict([personal_info |->
            Dict([email |-> "ann@lee.io"])])

empty_resume ==
    Dict(EmptyDict)

no_resume ==
    PyNone

Resumes ==
    {complete_resume,
     sparse_resume,
     skills_only_resume,
     contact_only_resume,
     null_work_resume,
     titles_only_resume,
     three_skills_resume,
     blank_resume,
     empty_resume,
     no_resume}

JobDescriptions ==
    {"",
     "python sql aws",
     "Django developer with docker experience",
     "Strong communication and problem-solving skills",
     "Looking for a python django developer with docker experience",
     "Ann Lee",
     "Cashiers wanted"}

Industries == {"", "technology", "Finance", "healthcare", "retail"}

\* analyze_resume(resume_content, job_description, target_industry); a
\* job_description or target_industry of None is ''
AnalyzeResume(resume_content, job_description, target_industry) ==
    /\ request = NoRequest
    /\ request' = [resume_content |-> resume_content,
                   job_description |-> job_description,
                   target_industry |-> target_industry]
    /\ now' = now + 1
    /\ IF InputError(resume_content) # ""
       THEN result' = [raised |-> "ValueError", message |-> InputError(resume_content)]
       ELSE \E analysis \in {AnalysisResult(resume_content, job_description,
                                            target_industry, now)} :
            \E missing_keywords \in
                 MissingKeywordChoices(analysis.keyword_analysis.missing_keywords) :
            \E named_keywords \in NamedKeywordChoices(missing_keywords) :
                result' = WithKeywordOrder(analysis, missing_keywords, named_keywords)
    /\ UNCHANGED <<store, last, appended, analyses, calls, orders, rate_limit_storage, admitted>>

Init == InitHistory

Next ==
    \E resume_content \in Resumes, job_description \in JobDescriptions,
       target_industry \in Industries :
        AnalyzeResume(resume_content, job_description, target_industry)

Spec == Init /\ [][Next]_vars

(***************************************************************************)
(* Resumes with every combination of missing sections: each of the six    *)
(* sections after personal_info is absent, empty or filled, and            *)
(* work_experience may also be None.                                       *)
(***************************************************************************)
section_resume ==
    Dict([personal_info |->
            Dict([first_name |-> "Ann",
                  last_name |-> "Lee",
                  email |-> "ann@lee.io",
                  phone |-> "5550100200"]),
          professional_summary |->
            "Builds data pipelines.",
          work_experience |->
            List(<<[job_title |-> "Engineer",
                    company |-> "Acme",
                    start_date |-> "2020-01",
                    end_date |-> "2023-06",
                    responsibilities |-> <<"Led the move to Docker.">>]>>),
          education |->
            List(<<[degree |-> "BSc", institution |-> "MIT"]>>),
          skills |->
            Dict([technical |-> <<"Python">>]),
          projects |->
            List(<<[name |-> "Ledger", technologies |-> <<"Flask">>]>>),
          certifications |->
            List(<<[name |-> "AWS Architect"]>>)])

\* the same resume without a name
nameless_resume ==
    Dict([key \in DOMAIN section_resume.dict \ {"personal_info"} |->
            section_resume.dict[key]])

OptionalSections ==
    {"professional_summary", "work_experience", "education", "skills",
     "projects", "certifications"}

\* The value of a section that is there and holds nothing
EmptySection(key) ==
    IF key = "professional_summary" THEN ""
    ELSE IF key = "skills" THEN Dict(EmptyDict)
    ELSE List(<<>>)

\* base with each optional section as layout says
WithSections(base, layout) ==
    Dict([key \in {k \in DOMAIN base.dict :
                      k \in DOMAIN layout => layout[k] # "absent"} |->
            IF key \notin DOMAIN layout \/ layout[key] = "filled" THEN base.dict[key]
            ELSE IF layout[key] = "empty" THEN EmptySection(key)
            ELSE IF layout[key] = "partial" THEN titles_only_resume.dict[key]
            ELSE PyNone])

SectionLayouts ==
    [OptionalSections -> {"absent", "empty", "filled"}]
        \cup {[layout EXCEPT !["work_experience"] = state] :
                layout \in [OptionalSections -> {"absent", "filled"}],
                state \in {"null", "partial"}}

SectionResumes ==
    {WithSections(section_resume, layout) : layout \in SectionLayouts}
        \cup {WithSections(nameless_resume, layout) :
                layout \in [OptionalSections -> {"absent", "empty"}]
                            \cup {[key \in OptionalSections |->
                                     IF key = "work_experience" THEN "partial"
                                     ELSE "absent"]}}

NextSections ==
    \E resume_content \in SectionResumes :
        AnalyzeResume(resume_content, "python sql aws", "")

SpecSections == Init /\ [][NextSections]_vars

(***************************************************************************)
(* The requests for the rules of the recommendations: the resumes above    *)
(* with every job description, and the long resume with none and with one  *)
(* it matches.                                                             *)
(***************************************************************************)
RuleRequests ==
    (Resumes \X JobDescriptions)
        \cup ({long_resume} \X {"", "billing api team"})

NextRules ==
    \E rq \in RuleRequests : AnalyzeResume(rq[1], rq[2], "")

SpecRules == Init /\ [][NextRules]_vars

(***************************************************************************)
(* _calculate_overall_ats_score on its own: the four sub-scores are the    *)
(* request and the overall score the result.                               *)
(***************************************************************************)
FormattingScores == {0, 45, 100}
KeywordScores == {0, 1, 2, 24, 50, 100}
ContentScores == {0, 1, 45, 100}
ReadabilityScores == {0, 31, 51, 62, 77, 100}

CalculateOverall(formatting, keyword, content, readability) ==
    /\ request = NoRequest
    /\ request' = [formatting_score |-> formatting,
                   keyword_score |-> keyword,
                   content_structure_score |-> content,
                   readability_score |-> readability]
    /\ result' = [overall_score |->
                     CalculateOverallATSScore(formatting, keyword, content, readability)]
    /\ UNCHANGED <<store, now, last, appended, analyses, calls, orders, rate_limit_storage, admitted>>

NextOverall ==
    \E formatting \in FormattingScores, keyword \in KeywordScores,
       content \in ContentScores, readability \in ReadabilityScores :
        CalculateOverall(formatting, keyword, content, readability)

SpecOverall == Init /\ [][NextOverall]_vars

(***************************************************************************)
(* The keyword score of given keyword lists and a given text: lists       *)
(* without repetition, as extract_keywords and get_industry_keywords       *)
(* return them.                                                            *)
(***************************************************************************)
\* A text of n words
RECURSIVE WordsText(_)
WordsText(n) ==
    IF n = 0 THEN ""
    ELSE IF n = 1 THEN "data"
    ELSE WordsText(n \div 2) \o " " \o WordsText(n - n \div 2)

OtherKeywords(n) == {"keyword " \o ToString(i) : i \in 1..n}

ResumeKeywordSets ==
    {OtherKeywords(n) \cup matched \cup known :
        n \in {0, 1, 4, 25},
        matched \in {{}, {"python"}, {"python", "sql"}},
        known \in {{}, {"agile", "scrum", "devops", "api", "rest", "git", "debugging"},
                   industry_keywords["technology"]}}

JobKeywordSets == {{}, {"python"}, {"python", "sql", "aws", "docker"}}

IndustryKeywordSets == {{}, industry_keywords["technology"]}

ResumeTexts == {WordsText(n) : n \in {0, 1, 12, 20, 50, 60, 120, 340}}

CalculateKeyword(resume_keywords, job_keywords, industry_kws, resume_text) ==
    /\ request = NoRequest
    /\ request' = [resume_keywords |-> resume_keywords,
                   job_keywords |-> job_keywords,
                   industry_keywords |-> industry_kws,
                   resume_text |-> resume_text]
    /\ result' = [keyword_score |->
                     CalculateKeywordScore(resume_keywords, job_keywords,
                                           industry_kws, resume_text)]
    /\ UNCHANGED <<store, now, last, appended, analyses, calls, orders, rate_limit_storage, admitted>>

NextKeywords ==
    \E resume_keywords \in ResumeKeywordSets, job_keywords \in JobKeywordSets,
       industry_kws \in IndustryKeywordSets, resume_text \in ResumeTexts :
        CalculateKeyword(resume_keywords, job_keywords, industry_kws, resume_text)

SpecKeywords == Init /\ [][NextKeywords]_vars

(***************************************************************************)
(* The content-structure step on résumés made of a summary of a given     *)
(* length, a work history and a number of skills.                          *)
(***************************************************************************)
Summaries == {WordsText(n) : n \in {0, 199, 200, 1000, 1001}}

detailed_job ==
    [job_title |-> "Engineer", company |-> "Acme",
     responsibilities |-> <<"Led a team of 4.", "Built the billing API",
                            "Designed: the schema">>]
single_job ==
    [job_title |-> "Analyst", company |-> "Initech",
     responsibilities |-> <<"Responsible for reports, managed budgets">>]
paired_job ==
    [job_title |-> "Manager", company |-> "Hooli",
     responsibilities |-> <<"Managed, with others, reduced costs", "led reviews!">>]
bare_job == [job_title |-> "Intern"]

WorkHistories ==
    {List(<<>>), List(<<detailed_job>>), List(<<single_job>>), List(<<paired_job>>),
     List(<<detailed_job, single_job>>), List(<<detailed_job, bare_job>>),
     List(<<paired_job, single_job>>), List(<<bare_job>>), PyNone}

SkillCounts == {0, 4, 5, 30, 31}

SkillsOf(n) ==
    Dict([technical |-> [i \in 1..(n \div 2) |-> "tool" \o ToString(i)],
          soft |-> [i \in 1..(n - n \div 2) |-> "habit" \o ToString(i)]])

ContentResumes ==
    {Dict([key \in {"professional_summary" : present \in {TRUE}}
                    \cup {"work_experience" : present \in {with_work}}
                    \cup {"skills" : present \in {with_skills}} |->
             IF key = "professional_summary" THEN summary
             ELSE IF key = "work_experience" THEN work_exp
             ELSE SkillsOf(n)]) :
        summary \in Summaries, work_exp \in WorkHistories, n \in SkillCounts,
        with_work \in BOOLEAN, with_skills \in BOOLEAN}

AnalyzeContent(resume_content) ==
    /\ request = NoRequest
    /\ request' = [resume_content |-> resume_content]
    /\ \E resume_text \in {ExtractResumeText(resume_content)} :
           result' = [content_structure_score |->
                         AnalyzeContentStructure(resume_content, resume_text).score]
    /\ UNCHANGED <<store, now, last, appended, analyses, calls, orders, rate_limit_storage, admitted>>

NextContent == \E resume_content \in ContentResumes : AnalyzeContent(resume_content)

SpecContent == Init /\ [][NextContent]_vars

(***************************************************************************)
(* _update_score_history run by two requests with a session each (worker  *)
(* processes on one PostgreSQL database, READ COMMITTED): the query reads  *)
(* the row, the commit writes the row computed from what was read.  An     *)
(* INSERT of a second row for a resume_id breaks the unique constraint.    *)
(***************************************************************************)
AppendScores == {40, 60}
MaxConcurrentAppends == 3

\* The appends begun: those completed or failed (now counts the reads)
ReadScoreHistory(c, resume_id, new_score) ==
    /\ calls[c] = Idle
    /\ now < MaxConcurrentAppends
    /\ calls' = [calls EXCEPT ![c] =
                    [pc |-> "read", resume_id |-> resume_id,
                     score_history |-> store[resume_id],
                     new_score_entry |-> [score |-> new_score, timestamp |-> now,
                                          date |-> Date(now)]]]
    /\ now' = now + 1
    /\ UNCHANGED <<store, last, appended, request, result, analyses, orders, rate_limit_storage, admitted>>

WriteScoreHistory(c) ==
    /\ calls[c] # Idle
    /\ calls[c].pc = "read"
    /\ LET resume_id       == calls[c].resume_id
           score_history   == calls[c].score_history
           new_score_entry == calls[c].new_score_entry
           raises          == \/ UpdateRaises(score_history, new_score_entry)
                              \/ score_history = NoRow /\ store[resume_id] # NoRow
       IN  /\ store' = IF raises THEN store
                       ELSE [store EXCEPT ![resume_id] =
                               IF score_history # NoRow
                               THEN UpdatedRow(score_history, new_score_entry)
                               ELSE NewRow(new_score_entry)]
           /\ appended' = IF raises THEN appended
                          ELSE [appended EXCEPT ![resume_id] = Append(@, new_score_entry)]
           /\ last' = [op |-> "update_score_history", resume_id |-> resume_id,
                       new_score |-> new_score_entry.score, raised |-> raises]
    /\ calls' = [calls EXCEPT ![c] = Idle]
    /\ UNCHANGED <<now, request, result, analyses, orders, rate_limit_storage, admitted>>

NextAppends ==
    \E c \in Callers :
        \/ \E resume_id \in Docs, new_score \in AppendScores :
               ReadScoreHistory(c, resume_id, new_score)
        \/ WriteScoreHistory(c)

SpecAppends == InitHistory /\ [][NextAppends]_vars

(***************************************************************************)
(* The endpoint analyze_resume_ats (ats_analysis.py).  Each caller makes   *)
(* one call; a call advances in the steps between which the calls of other *)
(* callers can run: the coroutine's awaits in analyze_resume, and the save. *)
(* The locals of a call are the fields of calls[c].                        *)
(***************************************************************************)
NotFound == [not_found |-> TRUE]

\* A resume that is a list, not a dict
list_resume == List(<<"Ann Lee">>)

\* HTTPException(status_code, detail) raised to the caller
HTTPException(rq, status_code, detail) ==
    [pc |-> "failed", request |-> rq, status_code |-> status_code, detail |-> detail]

\* analyze_resume_ats up to the first await inside analyze_resume: the
\* resume is looked up, the input checked, the text extracted and the
\* formatting scored.  A ValueError of analyze_resume becomes a 422.
AnalyzeResumeATS(c, resume_id, resume_content, job_description, target_industry) ==
    LET rq == [resume_id |-> resume_id, resume_content |-> resume_content,
               job_description |-> job_description, target_industry |-> target_industry]
    IN  /\ calls[c] = Idle
        /\ calls' = [calls EXCEPT ![c] =
              IF resume_content = NotFound
              THEN HTTPException(rq, 404, "Resume not found")
              ELSE IF InputError(resume_content) # ""
              THEN HTTPException(rq, 422, InputError(resume_content))
              ELSE [pc |-> "keywords", request |-> rq,
                    resume_text |-> ExtractResumeText(resume_content),
                    formatting_score |-> AnalyzeFormatting(resume_content)]]
        /\ UNCHANGED <<store, now, last, appended, request, result, analyses, orders, rate_limit_storage, admitted>>

\* Faulty variant of AnalyzeKeywordsStep: the analyses are kept in the
\* service, which the calls share, so every call at this step gets them
AnalyzeKeywordsShared(c) ==
    /\ calls[c].pc = "keywords"
    /\ \E keyword_analysis \in {AnalyzeKeywords(calls[c].resume_text,
                                                calls[c].request.job_description,
                                                calls[c].request.target_industry)} :
       \E content_analysis \in {AnalyzeContentStructure(calls[c].request.resume_content,
                                                        calls[c].resume_text)} :
       \E readability_score \in {AnalyzeReadability(calls[c].resume_text)} :
          calls' = [d \in DOMAIN calls |->
              IF calls[d].pc # "keywords" THEN calls[d]
              ELSE [pc |-> "skill_gaps",
                    request |-> calls[d].request,
                    resume_text |-> calls[d].resume_text,
                    formatting_score |-> calls[d].formatting_score,
                    keyword_analysis |-> keyword_analysis,
                    content_analysis |-> content_analysis,
                    readability_score |-> readability_score,
                    overall_score |->
                        CalculateOverallATSScore(calls[d].formatting_score.score,
                                                 keyword_analysis.score,
                                                 content_analysis.score,
                                                 readability_score),
                    recommendations |->
                        GenerateATSRecommendations(calls[d].formatting_score,
                                                   keyword_analysis, content_analysis,
                                                   readability_score,
                                                   keyword_analysis.missing_keywords)]]
    /\ UNCHANGED <<store, now, last, appended, request, result, analyses, orders, rate_limit_storage, admitted>>

\* analyze_resume from "await self._analyze_keywords" to the next await: the
\* keyword analysis, the content and readability scores, the overall score
\* and the recommendations, all from the locals of the call
AnalyzeKeywordsStep(c) ==
    /\ calls[c].pc = "keywords"
    /\ \E keyword_analysis \in {AnalyzeKeywords(calls[c].resume_text,
                                                calls[c].request.job_description,
                                                calls[c].request.target_industry)} :
       \E missing_keywords \in MissingKeywordChoices(keyword_analysis.missing_keywords) :
       \E named_keywords \in NamedKeywordChoices(missing_keywords) :
       \E content_analysis \in {AnalyzeContentStructure(calls[c].request.resume_content,
                                                        calls[c].resume_text)} :
       \E readability_score \in {AnalyzeReadability(calls[c].resume_text)} :
          calls' = [calls EXCEPT ![c] =
              [pc |-> "skill_gaps",
               request |-> calls[c].request,
               resume_text |-> calls[c].resume_text,
               formatting_score |-> calls[c].formatting_score,
               keyword_analysis |->
                   [keyword_analysis EXCEPT !.missing_keywords = missing_keywords],
               content_analysis |-> content_analysis,
               readability_score |-> readability_score,
               overall_score |->
                   CalculateOverallATSScore(calls[c].formatting_score.score,
                                            keyword_analysis.score,
                                            content_analysis.score, readability_score),
               recommendations |->
                   GenerateATSRecommendations(calls[c].formatting_score, keyword_analysis,
                                              content_analysis, readability_score,
                                              named_keywords)]]
    /\ UNCHANGED <<store, now, last, appended, request, result, analyses, orders, rate_limit_storage, admitted>>

\* analyze_resume from "await self._analyze_skill_gaps" to its return: the
\* skill gaps, the industry insights and the ATSAnalysisResult
AnalyzeSkillGapsStep(c) ==
    /\ calls[c].pc = "skill_gaps"
    /\ calls' = [calls EXCEPT ![c] =
          [pc |-> "save",
           request |-> calls[c].request,
           result |->
             [overall_ats_score |-> calls[c].overall_score,
              formatting_score |-> calls[c].formatting_score.score,
              keyword_score |-> calls[c].keyword_analysis.score,
              content_structure_score |-> calls[c].content_analysis.score,
              readability_score |-> calls[c].readability_score,
              keyword_analysis |-> calls[c].keyword_analysis,
              skill_gaps |-> AnalyzeSkillGaps(calls[c].request.resume_content,
                                              calls[c].request.job_description,
                                              calls[c].request.target_industry),
              recommendations |-> calls[c].recommendations,
              industry_insights |-> GetIndustryInsights(calls[c].request.target_industry,
                                                        calls[c].request.resume_content),
              analysis_timestamp |-> now,
              job_match_percentage |->
                  IF calls[c].request.job_description # ""
                  THEN calls[c].keyword_analysis.job_match_percentage
                  ELSE PyNone]]]
    /\ now' = now + 1
    /\ UNCHANGED <<store, last, appended, request, result, analyses, orders, rate_limit_storage, admitted>>

\* _count_critical_issues
CountCriticalIssues(analysis_result) ==
    Cardinality({i \in 1..Len(analysis_result.recommendations) :
                    analysis_result.recommendations[i].priority = "high"})
    + Cardinality(analysis_result.skill_gaps.critical_missing)
    + (IF analysis_result.overall_ats_score < 50 THEN 1 ELSE 0)

\* analysis_record of save_analysis_result
AnalysisRecord(resume_id, analysis_result) ==
    [resume_id |-> resume_id,
     overall_ats_score |-> analysis_result.overall_ats_score,
     formatting_score |-> analysis_result.formatting_score,
     keyword_score |-> analysis_result.keyword_score,
     content_structure_score |-> analysis_result.content_structure_score,
     readability_score |-> analysis_result.readability_score,
     job_match_percentage |-> analysis_result.job_match_percentage,
     analysis_timestamp |-> analysis_result.analysis_timestamp,
     recommendations_count |-> Len(analysis_result.recommendations),
     critical_issues_count |-> CountCriticalIssues(analysis_result)]

\* The rest of analyze_resume_ats: save_analysis_result creates the row of
\* the analysis and updates the score history; an error of the save is
\* logged and the result returned all the same
SaveAnalysisResult(c) ==
    LET resume_id       == calls[c].request.resume_id
        analysis_result == calls[c].result
        new_score_entry == [score |-> analysis_result.overall_ats_score,
                            timestamp |-> now, date |-> Date(now)]
    IN  /\ calls[c].pc = "save"
        /\ analyses' = Append(analyses, AnalysisRecord(resume_id, analysis_result))
        /\ store' = ScoreHistoryWith(resume_id, new_score_entry)
        /\ appended' = AppendedWith(resume_id, new_score_entry)
        /\ now' = now + 1
        /\ calls' = [calls EXCEPT ![c] = [@ EXCEPT !.pc = "returned"]]
        /\ UNCHANGED <<last, request, result, orders, rate_limit_storage, admitted>>

\* The contents the callers' resumes have and what they ask for
CallResumes ==
    {contact_only_resume, skills_only_resume, blank_resume, empty_resume, no_resume,
     list_resume, NotFound}
CallJobDescriptions == {"python sql aws"}
CallIndustries == {""}

NextCalls ==
    \E c \in Callers :
        \/ \E resume_id \in Docs, resume_content \in CallResumes,
              job_description \in CallJobDescriptions,
              target_industry \in CallIndustries :
               AnalyzeResumeATS(c, resume_id, resume_content, job_description,
                                target_industry)
        \/ AnalyzeKeywordsStep(c)
        \/ AnalyzeSkillGapsStep(c)
        \/ SaveAnalysisResult(c)

SpecCalls == InitHistory /\ [][NextCalls]_vars

(***************************************************************************)
(* Repeated calls of analyze_resume.  A call is served by one of the       *)
(* server's processes.  keywords = set() in extract_keywords is a set of   *)
(* str, and list(keywords) lists it in the order of the str hashes, which  *)
(* Python draws anew for every process (hash randomisation): the order,    *)
(* and with it what [:10] and [:5] keep, is arbitrary, and it is the same  *)
(* for the same request as long as the process lives.  orders[w] holds the *)
(* orders process w has produced so far.                                   *)
(***************************************************************************)
Repeaters == {"a", "b", "c"}

\* The callers call one after the other, in this order
CallOrder == <<"a", "b", "c">>
Turn(c) ==
    \E i \in 1..Len(CallOrder) :
        /\ CallOrder[i] = c
        /\ \A j \in 1..(i - 1) : calls[CallOrder[j]] # Idle

\* The cuts of the missing keywords that process w can make for the request
KeywordOrders(w, rq, missing) ==
    IF \E order \in orders[w] : order.request = rq
    THEN {order \in orders[w] : order.request = rq}
    ELSE UNION {{[request |-> rq,
                  missing_keywords |-> missing_keywords,
                  named_keywords |-> named_keywords] :
                    named_keywords \in NamedKeywordChoices(missing_keywords)} :
                  missing_keywords \in MissingKeywordChoices(missing)}

\* analyze_resume(resume_content, job_description, target_industry) called
\* by c and run by process w
AnalyzeResumeIn(w, c, resume_content, job_description, target_industry) ==
    /\ calls[c] = Idle
    /\ Turn(c)
    /\ now' = now + 1
    /\ LET rq == [resume_content |-> resume_content,
                  job_description |-> job_description,
                  target_industry |-> target_industry]
       IN  IF InputError(resume_content) # ""
           THEN /\ calls' = [calls EXCEPT ![c] =
                               [pc |-> "raised", worker |-> w, request |-> rq,
                                message |-> InputError(resume_content)]]
                /\ UNCHANGED orders
           ELSE \E analysis \in {AnalysisResult(resume_content, job_description,
                                                target_industry, now)} :
                \E order \in KeywordOrders(w, rq,
                                 analysis.keyword_analysis.missing_keywords) :
                    /\ calls' = [calls EXCEPT ![c] =
                                   [pc |-> "returned", worker |-> w, request |-> rq,
                                    result |-> WithKeywordOrder(analysis,
                                                   order.missing_keywords,
                                                   order.named_keywords)]]
                    /\ orders' = [orders EXCEPT ![w] = @ \cup {order}]
    /\ UNCHANGED <<store, last, appended, request, result, analyses, rate_limit_storage, admitted>>

skilled_resume ==
    Dict([personal_info |->
            Dict([first_name |-> "Ann"]),
          skills |->
            Dict([technical |-> <<"design", "python">>])])

\* The requests of the repeated calls: resume and job description
RepeatRequests ==
    {<<sparse_resume, "python sql aws docker kubernetes terraform">>,
     <<skilled_resume, "python">>,
     <<skilled_resume, "python design">>,
     <<blank_resume, "python">>}

InitRepeat ==
    /\ store = [d \in Docs |-> NoRow]
    /\ now = 0
    /\ last = NoCall
    /\ appended = [d \in Docs |-> <<>>]
    /\ request = NoRequest
    /\ result = NoResult
    /\ analyses = <<>>
    /\ calls = [c \in Repeaters |-> Idle]
    /\ orders = [w \in Workers |-> {}]
    /\ rate_limit_storage = [client_ip \in ClientIps |-> <<>>]
    /\ admitted = [client_ip \in ClientIps |-> <<>>]

NextRepeat ==
    \E w \in Workers, c \in Repeaters, rq \in RepeatRequests :
        AnalyzeResumeIn(w, c, rq[1], rq[2], "")

SpecRepeat == InitRepeat /\ [][NextRepeat]_vars

(***************************************************************************)
(* save_analysis_result run by two requests: create() adds the analysis    *)
(* row and commits, then _update_score_history queries the history row     *)
(* and commits the new one.                                                *)
(***************************************************************************)
\* An analysis result of a given overall score, with the fields the
\* analysis row is made of
SavedResult(score) ==
    [overall_ats_score |-> score, formatting_score |-> score,
     keyword_score |-> score, content_structure_score |-> score,
     readability_score |-> score, job_match_percentage |-> PyNone,
     analysis_timestamp |-> 0, recommendations |-> <<>>,
     skill_gaps |-> [critical_missing |-> {}]]

MaxSaves == 3

\* self.create of the analysis_record
CreateAnalysis(c, resume_id, analysis_result) ==
    /\ calls[c] = Idle
    /\ Len(analyses) < MaxSaves
    /\ analyses' = Append(analyses, AnalysisRecord(resume_id, analysis_result))
    /\ calls' = [calls EXCEPT ![c] =
                    [pc |-> "created", resume_id |-> resume_id,
                     new_score |-> analysis_result.overall_ats_score]]
    /\ UNCHANGED <<store, now, last, appended, request, result, orders, rate_limit_storage, admitted>>

\* The query of _update_score_history and its new_score_entry
QueryScoreHistory(c) ==
    /\ calls[c] # Idle
    /\ calls[c].pc = "created"
    /\ calls' = [calls EXCEPT ![c] =
                    [pc |-> "read", resume_id |-> calls[c].resume_id,
                     score_history |-> store[calls[c].resume_id],
                     new_score_entry |-> [score |-> calls[c].new_score,
                                          timestamp |-> now, date |-> Date(now)]]]
    /\ now' = now + 1
    /\ UNCHANGED <<store, last, appended, request, result, analyses, orders, rate_limit_storage, admitted>>

NextSave ==
    \E c \in Callers :
        \/ \E resume_id \in Docs, new_score \in AppendScores :
               CreateAnalysis(c, resume_id, SavedResult(new_score))
        \/ QueryScoreHistory(c)
        \/ WriteScoreHistory(c)

SpecSave == InitHistory /\ [][NextSave]_vars

(***************************************************************************)
(* RateLimitChecker: the in-memory limiter of the ATS endpoints.  A call   *)
(* runs on the event loop without awaiting, so it is one step.             *)
(***************************************************************************)
\* rate_limit_ats_analysis = RateLimitChecker(requests=10, window=300)
rate_limit_ats_analysis == [requests |-> 10, window |-> 300]

\* The requests: of two client hosts, and one without a client
HttpRequests ==
    {[client |-> [host |-> "10.0.0.1"]],
     [client |-> [host |-> "10.0.0.2"]],
     [client |-> PyNone]}

\* request.client.host if request.client else "unknown"
ClientIp(http_request) ==
    IF http_request.client # PyNone THEN http_request.client.host ELSE "unknown"

\* [t for t in _rate_limit_storage[client_ip] if t > cutoff_time]
Retained(timestamps, cutoff_time) ==
    LET Recent(t) == t > cutoff_time
    IN  SelectSeq(timestamps, Recent)

LimitExceeded(self, timestamps) == Len(timestamps) > self.requests
\* len(_rate_limit_storage[client_ip]) >= self.requests
LimitReached(self, timestamps) == Len(timestamps) >= self.requests

\* The seconds the clock runs to, the seconds that pass between calls, and
\* the calls made from the second host and without a client
MaxRateTime == 300
Elapses == {150}
MaxOtherCalls == 2
CallsLeft(client_ip) ==
    client_ip = "10.0.0.1" \/ Len(admitted[client_ip]) < MaxOtherCalls

\* RateLimitChecker.__call__: status 429 is the HTTPException raised
RateLimit(self, http_request) ==
    \E client_ip \in {ClientIp(http_request)}, current_time \in {now} :
    \E timestamps \in {Retained(rate_limit_storage[client_ip],
                                current_time - self.window)} :
        /\ CallsLeft(client_ip)
        /\ IF LimitReached(self, timestamps)
           THEN /\ rate_limit_storage' =
                       [rate_limit_storage EXCEPT ![client_ip] = timestamps]
                /\ last' = [op |-> "rate_limit", client_ip |-> client_ip,
                            current_time |-> current_time, status_code |-> 429]
                /\ UNCHANGED admitted
           ELSE /\ rate_limit_storage' =
                       [rate_limit_storage EXCEPT
                           ![client_ip] = Append(timestamps, current_time)]
                /\ last' = [op |-> "rate_limit", client_ip |-> client_ip,
                            current_time |-> current_time, status_code |-> 200]
                /\ admitted' = [admitted EXCEPT ![client_ip] = Append(@, current_time)]
        /\ UNCHANGED <<store, now, appended, request, result, analyses, calls, orders>>

\* time.time() between two calls
Elapse(seconds) ==
    /\ now + seconds <= MaxRateTime
    /\ now' = now + seconds
    /\ UNCHANGED <<store, last, appended, request, result, analyses, calls, orders, rate_limit_storage, admitted>>

NextRate ==
    \/ \E http_request \in HttpRequests :
           RateLimit(rate_limit_ats_analysis, http_request)
    \/ \E seconds \in Elapses : Elapse(seconds)

SpecRate == InitHistory /\ [][NextRate]_vars

(***************************************************************************)
(* Claims about the analysis.                                              *)
(***************************************************************************)

\* analyze_resume returned a result for the request
Returned == result # NoResult /\ "overall_ats_score" \in DOMAIN result

\* C1: in every result the analysis returns, the four sub-scores and the
\* overall score are integers between 0 and 100 inclusive, also when a
\* scoring step fell back to its default after an error.
C1_ScoresInRange ==
    Returned =>
        \A score \in {result.overall_ats_score, result.formatting_score,
                      result.keyword_score, result.content_structure_score,
                      result.readability_score} :
            score \in 0..100

\* A result whose formatting step raised and fell back to 50
C1_Witness ==
    /\ Returned
    /\ FormattingRaises(request.resume_content)
    /\ result.formatting_score = 50
    /\ result.keyword_score > 0

\* C2: the missing skills are the required skills that are not current, the
\* matching skills the required skills that are current, both over
\* lowercased names: they are disjoint and together are the required skills.
C2_SkillPartition ==
    Returned =>
        LET gaps == result.skill_gaps
        IN  /\ \A skill \in gaps.current_skills \cup gaps.required_skills :
                   Lower(skill) = skill
            /\ gaps.missing_skills = gaps.required_skills \ gaps.current_skills
            /\ gaps.matching_skills = gaps.required_skills \cap gaps.current_skills
            /\ gaps.missing_skills \cap gaps.matching_skills = {}
            /\ gaps.missing_skills \cup gaps.matching_skills = gaps.required_skills

\* A result with missing skills, matching skills and a current skill that
\* is not required
C2_Witness ==
    /\ Returned
    /\ result.skill_gaps.missing_skills # {}
    /\ result.skill_gaps.matching_skills # {}
    /\ result.skill_gaps.current_skills \ result.skill_gaps.required_skills # {}

\* C3: the critical, important and nice-to-have missing skills are pairwise
\* disjoint and together are the missing skills; a missing skill that the
\* priority table of the industry lists neither as critical nor as important
\* is nice-to-have, whether the table lists it or not.
C3_PriorityPartition ==
    Returned =>
        LET gaps   == result.skill_gaps
            listed == GetSkillPriorities(request.target_industry)
        IN  /\ gaps.critical_missing \cap gaps.important_missing = {}
            /\ gaps.critical_missing \cap gaps.nice_to_have_missing = {}
            /\ gaps.important_missing \cap gaps.nice_to_have_missing = {}
            /\ gaps.critical_missing \cup gaps.important_missing
                   \cup gaps.nice_to_have_missing = gaps.missing_skills
            /\ \A skill \in gaps.missing_skills :
                   skill \notin listed.critical \cup listed.important
                       => skill \in gaps.nice_to_have_missing

\* A result with critical, important and nice-to-have missing skills, one
\* of the last in no list of the table
C3_Witness ==
    /\ Returned
    /\ result.skill_gaps.critical_missing # {}
    /\ result.skill_gaps.important_missing # {}
    /\ result.skill_gaps.nice_to_have_missing
           \ GetSkillPriorities(request.target_industry).nice_to_have # {}

\* The float x is num / den up to a relative error of 2^-40
IsAbout(x, num, den) ==
    IF num = 0 THEN x = FZero
    ELSE /\ x.m # <<>>
         /\ ~x.neg
         /\ x.e <= 0
         /\ LET scaled == BMulSmall(x.m, den)
                exact  == BShl(BFromInt(num), -x.e)
                error  == IF BCmp(scaled, exact) >= 0 THEN BSub(scaled, exact)
                          ELSE BSub(exact, scaled)
            IN  BCmp(BShl(error, 40), exact) <= 0

\* C4: skill_match_percentage is 100 * |matching| / |required| when skills
\* are required and exactly 100 when none are, as with no job description
\* and no or an unknown industry; with three required skills of which one
\* is current, two are missing and the percentage is about 33.3.
C4_SkillMatchPercentage ==
    Returned =>
        LET gaps     == result.skill_gaps
            required == Cardinality(gaps.required_skills)
            matching == Cardinality(gaps.matching_skills)
        IN  /\ required > 0 =>
                   IsAbout(gaps.skill_match_percentage, 100 * matching, required)
            /\ required = 0 => gaps.skill_match_percentage = FFromInt(100)
            /\ (/\ request.job_description = ""
                /\ Lower(request.target_industry) \notin DOMAIN industry_keywords)
                   => required = 0
            /\ (required = 3 /\ matching = 1) =>
                   /\ Cardinality(gaps.missing_skills) = 2
                   /\ FTrunc(FMul(gaps.skill_match_percentage, FFromInt(10))) = 333

\* A result for three required skills of which the resume has one
C4_Witness ==
    /\ Returned
    /\ Cardinality(result.skill_gaps.required_skills) = 3
    /\ result.skill_gaps.matching_skills = {"python"}
    /\ Cardinality(result.skill_gaps.missing_skills) = 2

\* C5: the result holds at most 10 recommendations, however many issues
\* the analysis found.
C5_AtMostTenRecommendations ==
    Returned => Len(result.recommendations) <= max_recommendations

\* A result for a resume with more than ten findings: eight formatting
\* issues and every other rule firing
C5_Witness ==
    /\ Returned
    /\ Len(AnalyzeFormatting(request.resume_content).issues) >= 8
    /\ {item.category : item \in Range(result.recommendations)}
           = {"formatting", "keywords", "job_match", "content", "readability"}
    /\ Len(result.recommendations) = 8

\* Position of a priority in the order HIGH, MEDIUM, LOW
PriorityRank(priority) ==
    CASE priority = "high" -> 1
      [] priority = "medium" -> 2
      [] priority = "low" -> 3

\* C6: in the recommendations no MEDIUM or LOW item comes before a HIGH
\* item and no LOW item before a MEDIUM item.
C6_PriorityOrdered ==
    Returned =>
        \A i, j \in 1..Len(result.recommendations) :
            i < j => PriorityRank(result.recommendations[i].priority)
                         <= PriorityRank(result.recommendations[j].priority)

\* A result with items of all three priorities, a LOW item last
C6_Witness ==
    /\ Returned
    /\ {item.priority : item \in Range(result.recommendations)}
           = {"high", "medium", "low"}
    /\ result.recommendations[Len(result.recommendations)].priority = "low"
    /\ result.readability_score < 70

(***************************************************************************)
(* Claims about the score history.                                         *)
(***************************************************************************)

\* C7: after any sequence of appends the stored history of a document holds
\* at most 50 entries, and every append, also one to a full history,
\* succeeds: it does not raise and leaves the new score as the last entry.
C7_HistoryCapped ==
    /\ \A d \in Docs : Len(Entries(d)) <= MaxHistory
    /\ last.op = "update_score_history" =>
        /\ ~last.raised
        /\ Entries(last.resume_id) # <<>>
        /\ Entries(last.resume_id)[Len(Entries(last.resume_id))].score = last.new_score

\* An append to a full history has succeeded.
C7_Witness ==
    /\ last.op = "update_score_history" /\ ~last.raised
    /\ Total("r1") > MaxHistory
    /\ Len(Entries("r1")) = MaxHistory

\* C8: the stored history is exactly the (up to) 50 most recently appended
\* entries, unchanged and in append order, the new entry last; appended
\* entries carry increasing timestamps, so the evicted ones are the oldest.
C8_MostRecentInOrder ==
    \A d \in Docs :
        /\ Entries(d) = LastN(appended[d], MaxHistory)
        /\ \A i, j \in 1..Len(appended[d]) :
              i < j => appended[d][i].timestamp < appended[d][j].timestamp

\* Entries have been evicted, among them one whose score differs from the
\* scores that remain.
C8_Witness ==
    /\ Len(appended["r1"]) > MaxHistory
    /\ Len(Entries("r1")) = MaxHistory
    /\ appended["r1"][1].score # BaseScore
    /\ \A i \in 1..Len(Entries("r1")) : Entries("r1")[i].score = BaseScore

\* The classification of the exact least-squares slope of ys against
\* 0..n-1.  With X[i] = 2(i-1) - (n-1) and Y[i] = n*ys[i] - sum(ys) the
\* slope is 2*sum(X*Y) / (n*sum(X*X)).
ExactTrend(ys) ==
    LET n   == Len(ys)
        X   == [i \in 1..n |-> 2 * (i - 1) - (n - 1)]
        Y   == [i \in 1..n |-> n * ys[i] - SumInt(ys)]
        sxy == SumInt([i \in 1..n |-> X[i] * Y[i]])
        sxx == SumInt([i \in 1..n |-> X[i] * X[i]])
    IN  IF sxy > n * sxx THEN "improving"
        ELSE IF sxy < -(n * sxx) THEN "declining"
        ELSE "stable"

\* C9: the trend stored with n >= 2 entries is the classification of the
\* least-squares slope of the last min(n, 5) scores: above 2 improving,
\* below -2 declining, otherwise (also at exactly 2 or -2) stable.
C9_TrendIsSlopeClass ==
    \A d \in Docs :
        Len(Entries(d)) >= 2 =>
            store[d].improvement_trend =
                ExactTrend(ScoresOf(LastN(Entries(d), TrendWindow)))

\* C10: a history of fewer than 2 entries has trend "neutral": the row the
\* first append stores, and what get_score_history returns for it; for a
\* document without a row get_score_history returns no scores and
\* "neutral", and does not raise.
C10_ShortHistoryNeutral ==
    /\ \A d \in Docs :
          store[d] # NoRow /\ Len(Entries(d)) < 2 => store[d].improvement_trend = "neutral"
    /\ last.op = "get_score_history" /\ Len(Entries(last.resume_id)) < 2 =>
          last.improvement_trend = "neutral" /\ ~last.raised
    /\ last.op = "get_score_history" /\ store[last.resume_id] = NoRow =>
          last.scores = <<>>

\* get_score_history has answered for a document without a row while the
\* other document has a one-entry history.
C10_Witness ==
    /\ last.op = "get_score_history"
    /\ store[last.resume_id] = NoRow
    /\ \E d \in Docs : Len(Entries(d)) = 1


(***************************************************************************)
(* Claims about the calls of the endpoint.                                 *)
(***************************************************************************)

\* The locals a call has once a scoring step ran, and its result
ScoringLocals ==
    {"formatting_score", "keyword_analysis", "content_analysis", "readability_score",
     "overall_score", "recommendations", "result"}

Returning(d) == {c \in Callers : calls[c].pc = "returned" /\ calls[c].request.resume_id = d}

\* C11: a call whose resume is absent, empty or not a mapping fails with the
\* invalid-input error, one whose extracted text is blank with the
\* empty-content error; such a call has no result and ran no scoring step,
\* and only calls that returned a result have a row among the saved
\* analyses or an entry in the score history.
C11_InvalidInputFails ==
    /\ \A c \in Callers :
          (calls[c] # Idle /\ calls[c].request.resume_content # NotFound) =>
             LET content == calls[c].request.resume_content
                 invalid == \/ content = PyNone
                            \/ IsList(content)
                            \/ IsDict(content) /\ DOMAIN content.dict = {}
                 blank   == ~invalid /\ Strip(ExtractResumeText(content)) = ""
             IN  /\ invalid =>
                       /\ calls[c].pc = "failed"
                       /\ calls[c].status_code = 422
                       /\ calls[c].detail = "Invalid resume content provided"
                 /\ blank =>
                       /\ calls[c].pc = "failed"
                       /\ calls[c].status_code = 422
                       /\ calls[c].detail = "Resume content appears to be empty"
                 /\ calls[c].pc = "failed" =>
                       /\ invalid \/ blank
                       /\ DOMAIN calls[c] \cap ScoringLocals = {}
    /\ Len(analyses) = Cardinality(UNION {Returning(d) : d \in Docs})
    /\ \A d \in Docs :
          /\ Len(appended[d]) = Cardinality(Returning(d))
          /\ Entries(d) = appended[d]
          /\ Cardinality({i \in 1..Len(analyses) : analyses[i].resume_id = d})
                = Cardinality(Returning(d))

\* Both errors happened, one call each, and nothing was persisted
C11_Witness ==
    /\ \A c \in Callers : calls[c].pc = "failed"
    /\ {calls[c].detail : c \in Callers}
          = {"Invalid resume content provided", "Resume content appears to be empty"}
    /\ analyses = <<>>
    /\ \A d \in Docs : store[d] = NoRow

(***************************************************************************)
(* Claims about sparse resumes.                                            *)
(***************************************************************************)
ResultFields ==
    {"overall_ats_score", "formatting_score", "keyword_score",
     "content_structure_score", "readability_score", "keyword_analysis",
     "skill_gaps", "recommendations", "industry_insights",
     "analysis_timestamp", "job_match_percentage"}

\* C12: for a resume mapping whose extracted text is not blank the analysis
\* returns a complete result whichever of the sections summary, work
\* experience, education, skills, projects and certifications are absent or
\* empty; a scoring step that fails inside (the formatting step on a
\* work_experience of None) gives its fallback 50 and the analysis goes on.
C12_SparseResumeComplete ==
    (/\ request # NoRequest
     /\ IsDict(request.resume_content)
     /\ Strip(ExtractResumeText(request.resume_content)) # "") =>
        /\ Returned
        /\ DOMAIN result = ResultFields
        /\ \A score \in {result.overall_ats_score, result.formatting_score,
                         result.keyword_score, result.content_structure_score,
                         result.readability_score} :
               score \in 0..100
        /\ result.job_match_percentage # PyNone
        /\ result.keyword_analysis.score = result.keyword_score
        /\ result.skill_gaps.missing_skills \cup result.skill_gaps.matching_skills
               = result.skill_gaps.required_skills
        /\ Len(result.recommendations) \in 0..max_recommendations
        /\ FormattingRaises(request.resume_content) =>
               /\ result.formatting_score = 50
               /\ result.recommendations[1].category = "formatting"
               /\ result.content_structure_score # 50

\* work_experience is None, every other section is absent, and the result
\* carries the fallback of the formatting step
C12_Witness ==
    /\ Returned
    /\ DOMAIN request.resume_content.dict = {"personal_info", "work_experience"}
    /\ FormattingRaises(request.resume_content)
    /\ DOMAIN result = ResultFields
    /\ result.formatting_score = 50

(***************************************************************************)
(* Claims about repeated calls.                                            *)
(***************************************************************************)
\* The result without its analysis_timestamp
Untimed(analysis) == [analysis EXCEPT !.analysis_timestamp = 0]

\* C13: analyze is deterministic: two calls with the same resume, job
\* description and target industry return results that agree in every field
\* except analysis_timestamp, whatever calls happened in between.
C13_Deterministic ==
    \A c, d \in Repeaters :
        (/\ calls[c].pc = "returned" /\ calls[d].pc = "returned"
         /\ calls[c].request = calls[d].request) =>
            Untimed(calls[c].result) = Untimed(calls[d].result)

\* ... which holds of the calls that one process serves
SameProcessDeterministic ==
    \A c, d \in Repeaters :
        (/\ calls[c].pc = "returned" /\ calls[d].pc = "returned"
         /\ calls[c].request = calls[d].request
         /\ calls[c].worker = calls[d].worker) =>
            Untimed(calls[c].result) = Untimed(calls[d].result)

\* C14: adding to the job description a keyword that is already among the
\* resume's skills never decreases job_match_percentage compared with the
\* same job description without that keyword.
C14_JobMatchMonotone ==
    \A c, d \in Repeaters :
        (/\ calls[c].pc = "returned" /\ calls[d].pc = "returned"
         /\ calls[c].request.resume_content = calls[d].request.resume_content
         /\ calls[c].request.target_industry = calls[d].request.target_industry
         /\ \E keyword \in CurrentSkills(calls[c].request.resume_content) :
                calls[d].request.job_description
                    = calls[c].request.job_description \o " " \o keyword) =>
            FGe(calls[d].result.job_match_percentage,
                calls[c].result.job_match_percentage)

(***************************************************************************)
(* Claims about the scenarios.                                             *)
(***************************************************************************)
\* The resume holds a name, an email and a phone number and nothing else
ContactOnly(resume_content) ==
    /\ IsDict(resume_content)
    /\ DOMAIN resume_content.dict = {"personal_info"}
    /\ IsDict(resume_content.dict.personal_info)
    /\ DOMAIN resume_content.dict.personal_info.dict
           = {"first_name", "last_name", "email", "phone"}
    /\ \A field \in {"first_name", "last_name", "email", "phone"} :
           resume_content.dict.personal_info.dict[field] # ""

HasHighFormattingItem(recommendations) ==
    \E i \in 1..Len(recommendations) :
        /\ recommendations[i].category = "formatting"
        /\ recommendations[i].priority = "high"

NameMatched ==
    /\ Returned
    /\ ContactOnly(request.resume_content)
    /\ result.formatting_score = 45
    /\ result.keyword_score = 24
    /\ result.overall_ats_score = 42

\* C16: for a resume whose skills contain python, django and docker,
\* analysed against the job description "Looking for a python django
\* developer with docker experience", matched_keywords contains python,
\* django and docker and job_match_percentage is exactly 100.0.
C16_ScenarioB ==
    (/\ Returned
     /\ {"python", "django", "docker"} \subseteq CurrentSkills(request.resume_content)
     /\ request.job_description
            = "Looking for a python django developer with docker experience") =>
        /\ {"python", "django", "docker"} \subseteq result.keyword_analysis.matched_keywords
        /\ result.job_match_percentage = FFromInt(100)

\* ... of which the first half holds
ScenarioBMatched ==
    (/\ Returned
     /\ {"python", "django", "docker"} \subseteq CurrentSkills(request.resume_content)
     /\ request.job_description
            = "Looking for a python django developer with docker experience") =>
        {"python", "django", "docker"} \subseteq result.keyword_analysis.matched_keywords

(***************************************************************************)
(* Claims about interleaved calls.                                         *)
(***************************************************************************)
\* The results analyze_resume can return for the request when it runs
\* alone and finishes at the time timestamp
AloneResults(rq, timestamp) ==
    LET analysis == AnalysisResult(rq.resume_content, rq.job_description,
                                   rq.target_industry, timestamp)
    IN  UNION {{WithKeywordOrder(analysis, missing_keywords, named_keywords) :
                   named_keywords \in NamedKeywordChoices(missing_keywords)} :
                 missing_keywords \in
                   MissingKeywordChoices(analysis.keyword_analysis.missing_keywords)}

\* C17: calls of analyze may run interleaved without coordination: no call
\* writes what another call reads, so under every interleaving the result of
\* each call is the result of running that call alone.
C17_CallsIsolated ==
    \A c \in Callers :
        /\ calls[c].pc \in {"save", "returned"} =>
               calls[c].result
                   \in AloneResults(calls[c].request, calls[c].result.analysis_timestamp)
        /\ calls[c].pc = "skill_gaps" =>
               \E alone \in AloneResults(calls[c].request, 0) :
                   /\ calls[c].overall_score = alone.overall_ats_score
                   /\ calls[c].keyword_analysis = alone.keyword_analysis
                   /\ calls[c].recommendations = alone.recommendations

\* Two calls for different resumes ran interleaved: a built its result
\* first and saved it last
C17_Witness ==
    /\ calls["a"].pc = "returned" /\ calls["b"].pc = "returned"
    /\ calls["a"].request.resume_content # calls["b"].request.resume_content
    /\ calls["a"].result.overall_ats_score # calls["b"].result.overall_ats_score
    /\ calls["a"].result.analysis_timestamp < calls["b"].result.analysis_timestamp
    /\ Len(analyses) = 2
    /\ analyses[1].analysis_timestamp = calls["b"].result.analysis_timestamp
    /\ analyses[2].analysis_timestamp = calls["a"].result.analysis_timestamp

(***************************************************************************)
(* Claims about the rules of the recommendations.                          *)
(***************************************************************************)
\* The positions of the items of a category
ItemsOf(recommendations, category) ==
    {i \in 1..Len(recommendations) : recommendations[i].category = category}

\* C18: whenever the job description produced a job_match_percentage and it
\* is below 60, from 0 up, the recommendations hold exactly one MEDIUM
\* job_match item naming up to 5 of the missing job keywords; when the
\* percentage is absent or at least 60 they hold none.
C18_JobMatchItem ==
    Returned =>
        LET job_match_percentage == result.keyword_analysis.job_match_percentage
            missing_keywords     == result.keyword_analysis.missing_keywords
            items                == ItemsOf(result.recommendations, "job_match")
        IN  IF /\ job_match_percentage # PyNone
               /\ FLt(job_match_percentage, FFromInt(60))
            THEN /\ Cardinality(items) = 1
                 /\ \A i \in items :
                       /\ result.recommendations[i].priority = "medium"
                       /\ result.recommendations[i].named_keywords \subseteq missing_keywords
                       /\ Cardinality(result.recommendations[i].named_keywords)
                              = Min(5, Cardinality(missing_keywords))
            ELSE items = {}

\* ... which holds of every percentage but 0.0
JobMatchItemAboveZero ==
    (Returned /\ result.keyword_analysis.job_match_percentage # FZero) => C18_JobMatchItem

\* C19: when the formatting score is below 80 the recommendations start
\* with min(3, number of formatting issues) HIGH formatting items titled
\* "Fix Resume Structure", one for each issue in the order of detection, and
\* there is at least one; when the score is 80 or more there is no
\* formatting item.
C19_FormattingItems ==
    Returned =>
        LET issues == AnalyzeFormatting(request.resume_content).issues
            count  == Min(3, Len(issues))
            items  == ItemsOf(result.recommendations, "formatting")
        IN  IF result.formatting_score < 80
            THEN /\ count >= 1
                 /\ items = 1..count
                 /\ \A i \in 1..count :
                       result.recommendations[i]
                           = [category |-> "formatting", priority |-> "high",
                              title |-> "Fix Resume Structure",
                              description |-> issues[i]]
            ELSE items = {}

\* A formatting score below 80 with more than three issues, of which the
\* first three are reported
C19_Witness ==
    /\ Returned
    /\ result.formatting_score < 80
    /\ Len(AnalyzeFormatting(request.resume_content).issues) > 3
    /\ ItemsOf(result.recommendations, "formatting") = 1..3
    /\ result.recommendations[3].description
           = AnalyzeFormatting(request.resume_content).issues[3]

\* A formatting score of 80 or more with an issue and no formatting item
IssueWithoutItem ==
    /\ Returned
    /\ result.formatting_score \in 80..99
    /\ AnalyzeFormatting(request.resume_content).issues # <<>>
    /\ ItemsOf(result.recommendations, "formatting") = {}

\* The rule of the spec that an item comes from
RuleNumber(item) ==
    CASE item.category = "formatting" -> 1
      [] item.category = "keywords" -> 2
      [] item.category = "job_match" -> 3
      [] item.category = "content" /\ item.priority = "medium" -> 4
      [] item.category = "readability" -> 5
      [] item.category = "content" /\ item.priority = "low" -> 6

\* The number of items of a rule
ItemsOfRule(recommendations, rule) ==
    Cardinality({i \in 1..Len(recommendations) :
                    RuleNumber(recommendations[i]) = rule})

\* C20: rules 2, 4, 5 and 6 each give exactly one recommendation if and
\* only if their condition holds: keyword score < 70 (HIGH, keywords), word
\* count < 200 (MEDIUM, content), readability < 70 (LOW, readability), fewer
\* than 5 distinct strong action verbs (LOW, content); and the items come in
\* the order of the rules 1 to 6.
C20_RuleItems ==
    Returned =>
        \E content \in {AnalyzeContentStructure(request.resume_content,
                            ExtractResumeText(request.resume_content))} :
            /\ ItemsOfRule(result.recommendations, 2)
                   = IF result.keyword_score < 70 THEN 1 ELSE 0
            /\ ItemsOfRule(result.recommendations, 4)
                   = IF content.word_count < 200 THEN 1 ELSE 0
            /\ ItemsOfRule(result.recommendations, 5)
                   = IF result.readability_score < 70 THEN 1 ELSE 0
            /\ ItemsOfRule(result.recommendations, 6)
                   = IF Cardinality(content.action_verbs_used) < 5 THEN 1 ELSE 0
            /\ \A i \in ItemsOf(result.recommendations, "keywords") :
                   result.recommendations[i].priority = "high"
            /\ \A i \in ItemsOf(result.recommendations, "readability") :
                   result.recommendations[i].priority = "low"
            /\ \A i \in ItemsOf(result.recommendations, "content") :
                   result.recommendations[i].priority \in {"medium", "low"}
            /\ \A i, j \in 1..Len(result.recommendations) :
                   i < j => RuleNumber(result.recommendations[i])
                                <= RuleNumber(result.recommendations[j])

\* No condition holds: the long resume against a job description that it
\* matches gets no item of the rules 2, 4, 5 and 6
C20_Witness ==
    /\ Returned
    /\ request.resume_content = long_resume
    /\ result.keyword_score >= 70
    /\ result.readability_score >= 70
    /\ \A rule \in {2, 4, 5, 6} : ItemsOfRule(result.recommendations, rule) = 0
    /\ result.recommendations # <<>>

\* Every condition holds: one item of each of the rules 2, 4, 5 and 6
EveryRule ==
    /\ Returned
    /\ result.keyword_score < 70
    /\ result.readability_score < 70
    /\ \A rule \in {2, 4, 5, 6} : ItemsOfRule(result.recommendations, rule) = 1

(***************************************************************************)
(* Claims about the formulas of the scores.                                *)
(***************************************************************************)
\* C21: for every combination of sub-scores in 0..100 the overall score is
\* the weighted sum 0.25 formatting + 0.35 keyword + 0.25 content + 0.15
\* readability truncated to an integer, that is
\* floor((25 formatting + 35 keyword + 25 content + 15 readability) / 100).
C21_OverallIsWeightedFloor ==
    "overall_score" \in DOMAIN result =>
        result.overall_score
            = (25 * request.formatting_score + 35 * request.keyword_score
               + 25 * request.content_structure_score
               + 15 * request.readability_score) \div 100

\* ... which holds within one point
OverallWithinOne ==
    "overall_score" \in DOMAIN result =>
        LET exact == (25 * request.formatting_score + 35 * request.keyword_score
                      + 25 * request.content_structure_score
                      + 15 * request.readability_score) \div 100
        IN  result.overall_score \in {exact - 1, exact}

\* The sections and the contact fields the formatting step charges for: the
\* ones that are absent or empty
AbsentSections(resume_content) ==
    {section \in {"personal_info", "work_experience", "education", "skills"} :
        \/ section \notin DOMAIN resume_content.dict
        \/ ~Truthy(resume_content.dict[section])}

AbsentFields(resume_content) ==
    LET info == IF "personal_info" \in DOMAIN resume_content.dict
                THEN resume_content.dict["personal_info"].dict
                ELSE EmptyDict
    IN  {field \in {"first_name", "last_name", "email", "phone"} :
            field \notin DOMAIN info \/ info[field] = ""}

\* The jobs of the work history, none when it is absent or None
JobsOf(resume_content) ==
    IF /\ "work_experience" \in DOMAIN resume_content.dict
       /\ IsList(resume_content.dict["work_experience"])
    THEN resume_content.dict["work_experience"].list
    ELSE <<>>

\* The (job, item) pairs of a missing title, company or responsibilities
MissingJobItems(resume_content) ==
    LET jobs == JobsOf(resume_content)
    IN  {pair \in (1..Len(jobs)) \X {"job_title", "company", "responsibilities"} :
            \/ pair[2] \notin DOMAIN jobs[pair[1]]
            \/ pair[2] = "responsibilities" /\ jobs[pair[1]][pair[2]] = <<>>
            \/ pair[2] # "responsibilities" /\ jobs[pair[1]][pair[2]] = ""}

\* The lengths of the date strings of the work history
DateLengths(resume_content) ==
    LET jobs == JobsOf(resume_content)
    IN  {Len(jobs[pair[1]][pair[2]]) :
            pair \in {q \in (1..Len(jobs)) \X {"start_date", "end_date"} :
                        /\ q[2] \in DOMAIN jobs[q[1]]
                        /\ jobs[q[1]][q[2]] # ""}}

FormattingFormula(resume_content) ==
    LET raw == 100 - 15 * Cardinality(AbsentSections(resume_content))
                   - 5 * Cardinality(AbsentFields(resume_content))
                   - (IF \/ "professional_summary" \notin DOMAIN resume_content.dict
                         \/ resume_content.dict["professional_summary"] = ""
                      THEN 10 ELSE 0)
                   - 5 * Cardinality(MissingJobItems(resume_content))
                   - (IF Cardinality(DateLengths(resume_content)) > 1 THEN 5 ELSE 0)
    IN  IF raw < 0 THEN 0 ELSE raw

KeywordInputs ==
    [resume   |-> request.resume_keywords,
     job      |-> request.job_keywords,
     industry |-> request.industry_keywords,
     words    |-> Len(Split(request.resume_text))]

\* The keyword formula in whole numbers; the density is 100 * keywords /
\* words, compared with 2, 8 and 15 after multiplying by the word count
KeywordFormula(in) ==
    LET keywords == Cardinality(in.resume)
        base     == IF 2 * keywords < 50 THEN 2 * keywords ELSE 50
        job      == IF in.job = {} THEN 0
                    ELSE (30 * Cardinality(in.resume \cap in.job))
                            \div Cardinality(in.job)
        industry == IF in.industry = {} THEN 0
                    ELSE (20 * Cardinality(in.resume \cap in.industry))
                            \div Cardinality(in.industry)
        density  == IF in.words = 0 THEN 0
                    ELSE IF /\ 2 * in.words <= 100 * keywords
                            /\ 100 * keywords <= 8 * in.words THEN 10
                    ELSE IF 100 * keywords > 15 * in.words THEN -10
                    ELSE 0
        total    == base + job + industry + density
    IN  IF total < 0 THEN 0 ELSE IF total > 100 THEN 100 ELSE total

\* C23: the keyword score is min(50, 2 * keywords of the résumé), plus
\* floor(30 * share of the job keywords matched) when there are job
\* keywords, plus floor(20 * share of the industry keywords matched) when
\* there are industry keywords, plus 10 when the keyword density is within
\* [2, 8] and minus 10 when it is above 15, clamped to [0, 100]
C23_KeywordFormula ==
    "keyword_score" \in DOMAIN result =>
        result.keyword_score = KeywordFormula(KeywordInputs)

\* One of four job keywords and 7 of 21 industry keywords matched, neither
\* share a whole number of points, with 9 keywords in 340 words: a density
\* within [2, 8]
C23_Witness ==
    /\ "keyword_score" \in DOMAIN result
    /\ Cardinality(request.resume_keywords \cap request.job_keywords) = 1
    /\ Cardinality(request.job_keywords) = 4
    /\ Cardinality(request.resume_keywords \cap request.industry_keywords) = 7
    /\ Cardinality(request.resume_keywords) = 9
    /\ Len(Split(request.resume_text)) = 340
    /\ result.keyword_score = 18 + 7 + 6 + 10

\* The responsibility bullets of the jobs and the skills of the résumé
BulletsOf(resume_content) ==
    LET jobs == JobsOf(resume_content)
    IN  {<<i, k>> \in (1..Len(jobs)) \X (1..3) :
            /\ "responsibilities" \in DOMAIN jobs[i]
            /\ k <= Len(jobs[i].responsibilities)}

SkillCount(resume_content) ==
    IF "skills" \notin DOMAIN resume_content.dict THEN 0
    ELSE LET skills == resume_content.dict["skills"].dict
         IN  Cardinality({<<category, k>> \in (DOMAIN skills) \X (1..31) :
                             k <= Len(skills[category])})

\* The strong action verbs that open a bullet, the punctuation after the
\* first word removed
OpeningVerbs(resume_content) ==
    LET jobs == JobsOf(resume_content)
    IN  {verb \in action_verbs :
            \E bullet \in BulletsOf(resume_content) :
                LET words == Split(Lower(jobs[bullet[1]].responsibilities[bullet[2]]))
                IN  /\ words # <<>>
                    /\ \E punctuation \in {"", ".", ",", "!", "?", ":", ";"} :
                           words[1] = verb \o punctuation}

ContentFormula(resume_content) ==
    LET words == Len(Split(ExtractResumeText(resume_content)))
        jobs == Len(JobsOf(resume_content))
        skills == SkillCount(resume_content)
        total == 100 - (IF words < 200 THEN 20 ELSE 0)
                     - (IF words > 1000 THEN 10 ELSE 0)
                     - (IF jobs > 0 /\ Cardinality(BulletsOf(resume_content)) < 2 * jobs
                        THEN 15 ELSE 0)
                     - (IF HasQuantifiableAchievements(resume_content) THEN 0 ELSE 15)
                     - (IF skills < 5 THEN 10 ELSE 0)
                     - (IF skills > 30 THEN 5 ELSE 0)
                     - (IF Cardinality(OpeningVerbs(resume_content)) < 3 THEN 10 ELSE 0)
    IN  IF total < 0 THEN 0 ELSE total

RetainedScores(d) == {Entries(d)[i].score : i \in 1..Len(Entries(d))}

RetainedSum(d) ==
    LET entries == Entries(d)
        upto[i \in 0..Len(entries)] ==
            IF i = 0 THEN 0 ELSE upto[i - 1] + entries[i].score
    IN  upto[Len(entries)]

\* C25: after every append best_score and worst_score are the largest and
\* the smallest score among the retained entries (at most 50) and
\* average_score is their mean (its whole part is that of sum / count, and
\* it is the quotient when the division is exact), so that worst_score <=
\* average_score <= best_score in every reachable state
C25_StatisticsOfRetained ==
    \A d \in Docs :
        store[d] # NoRow =>
            /\ Len(Entries(d)) \in 1..MaxHistory
            /\ store[d].best_score \in RetainedScores(d)
            /\ store[d].worst_score \in RetainedScores(d)
            /\ \A score \in RetainedScores(d) :
                   store[d].worst_score <= score /\ score <= store[d].best_score
            /\ FTrunc(store[d].average_score) = RetainedSum(d) \div Len(Entries(d))
            /\ RetainedSum(d) % Len(Entries(d)) = 0 =>
                   store[d].average_score
                       = FFromInt(RetainedSum(d) \div Len(Entries(d)))
            /\ FLe(FFromInt(store[d].worst_score), store[d].average_score)
            /\ FLe(store[d].average_score, FFromInt(store[d].best_score))

\* The first score, 70, has left the 50 retained entries: the best score
\* went back to 50
C25_Witness ==
    /\ last # NoCall /\ last.op = "update_score_history"
    /\ Len(appended["r1"]) = MaxHistory + 1
    /\ appended["r1"][1].score = 70
    /\ Len(Entries("r1")) = MaxHistory
    /\ store["r1"].best_score = BaseScore
    /\ store["r1"].average_score = FFromInt(BaseScore)

\* C26: when two appends of scores to one document interleave, both reading
\* the stored history before either writes it back, both scores are in the
\* history afterwards and total_analyses has grown by 2: every append that
\* completed is in the stored history and is counted
C26_NoAppendLost ==
    \A d \in Docs :
        /\ Total(d) = Len(appended[d])
        /\ \A i \in 1..Len(appended[d]) :
               \E k \in 1..Len(Entries(d)) : Entries(d)[k] = appended[d][i]

\* ... while an append that writes back the row as it still is stored adds
\* its entry and 1 to total_analyses
FreshWriteKept ==
    [][\A c \in Callers :
          (/\ calls[c] # Idle
           /\ calls'[c] = Idle
           /\ calls[c].score_history = store[calls[c].resume_id]) =>
              /\ store'[calls[c].resume_id].total_analyses
                     = Total(calls[c].resume_id) + 1
              /\ \E k \in 1..Len(JsonLoads(store'[calls[c].resume_id].scores_json)) :
                     JsonLoads(store'[calls[c].resume_id].scores_json)[k]
                         = calls[c].new_score_entry]_vars

\* C27: for each document total_analyses is the number of appends
\* completed for it and is never smaller than the length of the stored
\* history (it also keeps growing by 1 per append past the cap of 50)
C27_TotalCountsAppends ==
    \A d \in Docs :
        /\ Total(d) = Len(appended[d])
        /\ Total(d) >= Len(Entries(d))

\* ... which holds of appends made one after the other, where every append
\* adds 1 to total_analyses, past the cap too
TotalGrowsByOne ==
    [][\A d \in Docs :
          /\ Total(d)' = Len(appended'[d])
          /\ Total(d)' >= Len(Entries(d)')
          /\ appended'[d] # appended[d] => Total(d)' = Total(d) + 1]_vars

(***************************************************************************)
(* Claims about reading the history, saving a result and the rate limit.   *)
(***************************************************************************)
\* C28: for every limit >= 1 get_score_history returns the last
\* min(limit, length) entries in chronological order and reports the trend
\* stored by the most recent append, the classification of the last 5 or
\* fewer entries of the whole history, whatever the limit
C28_ReadsStoredTrend ==
    (/\ last.op = "get_score_history"
     /\ store[last.resume_id] # NoRow) =>
        /\ Len(last.scores) = Min(last.limit, Len(Entries(last.resume_id)))
        /\ \A i \in 1..Len(last.scores) :
               last.scores[i]
                   = Entries(last.resume_id)[Len(Entries(last.resume_id))
                                                - Len(last.scores) + i]
        /\ last.improvement_trend = store[last.resume_id].improvement_trend
        /\ last.improvement_trend
               = CalculateImprovementTrend(Entries(last.resume_id))

\* ... of which the entries are as claimed, and the trend too when the limit
\* is at least 5 or at least the length of the history
ReadsLastEntries ==
    (/\ last.op = "get_score_history"
     /\ store[last.resume_id] # NoRow) =>
        /\ Len(last.scores) = Min(last.limit, Len(Entries(last.resume_id)))
        /\ \A i \in 1..Len(last.scores) :
               last.scores[i]
                   = Entries(last.resume_id)[Len(Entries(last.resume_id))
                                                - Len(last.scores) + i]
        /\ (last.limit >= TrendWindow \/ last.limit >= Len(Entries(last.resume_id))) =>
               last.improvement_trend = store[last.resume_id].improvement_trend

\* The analysis rows of a document and the saves of it under way
RecordsOf(d) == {i \in 1..Len(analyses) : analyses[i].resume_id = d}
SavingOf(d) == {c \in Callers : calls[c] # Idle /\ calls[c].resume_id = d}

\* C29: saving an analysis result is all-or-nothing: a save that succeeds
\* stores the analysis row and one history entry with its overall score, a
\* save whose history update fails leaves no analysis row and the history
\* as it was; so a document has as many analysis rows as completed history
\* appends, the saves under way aside
C29_SaveAllOrNothing ==
    \A d \in Docs :
        Cardinality(RecordsOf(d)) = Len(appended[d]) + Cardinality(SavingOf(d))

\* ... of which a failed history update does leave the history as it was,
\* and a save that succeeds stores both
FailedUpdateKeepsHistory ==
    [][\A c \in Callers :
          (calls[c] # Idle /\ calls'[c] = Idle) =>
              /\ last'.raised => store' = store /\ appended' = appended
              /\ ~last'.raised =>
                    /\ Len(appended'[calls[c].resume_id])
                           = Len(appended[calls[c].resume_id]) + 1
                    /\ \E i \in RecordsOf(calls[c].resume_id) :
                           analyses[i].overall_ats_score
                               = calls[c].new_score_entry.score]_vars


\* The admitted calls of an address made after cutoff_time and up to
\* current_time
AdmittedWithin(client_ip, cutoff_time, current_time) ==
    {i \in 1..Len(admitted[client_ip]) :
        /\ admitted[client_ip][i] > cutoff_time
        /\ admitted[client_ip][i] <= current_time}

\* No address has more than `requests` admitted calls in the `window`
\* seconds that end with one of its calls, and the storage of an address
\* holds admitted calls only: the last of them, in order
WindowKept ==
    \A client_ip \in ClientIps :
        /\ \A i \in 1..Len(admitted[client_ip]) :
               Cardinality(AdmittedWithin(client_ip,
                               admitted[client_ip][i] - rate_limit_ats_analysis.window,
                               admitted[client_ip][i]))
                   <= rate_limit_ats_analysis.requests
        /\ \E first \in 1..(Len(admitted[client_ip]) + 1) :
               rate_limit_storage[client_ip] =
                   SubSeq(admitted[client_ip], first, Len(admitted[client_ip]))

\* A call is admitted exactly when its own address has fewer than
\* `requests` admitted calls in the window before it, an admitted call is
\* recorded once and a rejected one not at all, and the records of every
\* other address stay as they were
CallOfOneAddress ==
    now' = now =>
        /\ last'.status_code = 200 <=>
               Cardinality(AdmittedWithin(last'.client_ip,
                               last'.current_time - rate_limit_ats_analysis.window,
                               last'.current_time))
                   < rate_limit_ats_analysis.requests
        /\ admitted'[last'.client_ip] =
               IF last'.status_code = 200
               THEN Append(admitted[last'.client_ip], last'.current_time)
               ELSE admitted[last'.client_ip]
        /\ Len(rate_limit_storage'[last'.client_ip]) <=
               Len(rate_limit_storage[last'.client_ip])
                   + (IF last'.status_code = 200 THEN 1 ELSE 0)
        /\ \A client_ip \in ClientIps \ {last'.client_ip} :
               /\ admitted'[client_ip] = admitted[client_ip]
               /\ rate_limit_storage'[client_ip] = rate_limit_storage[client_ip]

\* C30: for each client address the limiter admits at most `requests`
\* calls within any `window` seconds (10 per 300 s for the ATS analysis), in
\* every order of the calls; a rejected call is not recorded, and the calls
\* of one address never change whether another address is admitted.
C30_RateLimitPerAddress == []WindowKept /\ [][CallOfOneAddress]_vars

\* The first host made ten calls at once, was rejected, and made ten more
\* when the first ten were 300 s old, and was rejected again; the second
\* host was admitted twice meanwhile
C30_Witness ==
    /\ Len(admitted["10.0.0.1"]) = 20
    /\ admitted["10.0.0.1"][10] = 0
    /\ admitted["10.0.0.1"][11] = 300
    /\ Len(rate_limit_storage["10.0.0.1"]) = 10
    /\ Len(admitted["10.0.0.2"]) = 2
    /\ last.op = "rate_limit"
    /\ last.client_ip = "10.0.0.1"
    /\ last.status_code = 429

=============================================================================
